---- MODULE Spec2Model ----
(***************************************************************************)
(* Invoice extraction pipeline (dags/invoice_extraction_v3.py and the      *)
(* pydantic models of include/validators/invoice_models.py).               *)
(*                                                                         *)
(* A Python dict is a TLA+ function whose DOMAIN is the set of keys the    *)
(* dict holds: d.get(k, default) is Get(d, k, default), {**d, **u} is      *)
(* Update(d, u).  Money is fixed point, in cents; the tolerance 0.01 is    *)
(* one cent.                                                               *)
(***************************************************************************)
EXTENDS Integers, Sequences, FiniteSets, TLC

VARIABLES
    storage,            \* object keys present in the bucket
    batch_size,         \* BATCH_SIZE of the run
    pending_keys,       \* result of list_pending_invoices
    batches,            \* result of create_batches
    batch_texts,        \* per batch: result of extract_batch_texts (<<>> before it ran)
    extracted_batches,  \* per batch: result of process_batch_with_llm
    task,               \* scheduler state of every task of the run
    mapped,             \* scheduler state of the mapped task instances, per batch
    extractions,        \* the argument validate_extractions was called with
    validated_results,  \* the list validate_extractions is building
    validated_data,     \* result of validate_extractions
    raised,             \* exception that ended validate_extractions ("" when none)
    table,              \* committed rows of invoices.invoices
    tx,                 \* the open transaction: the rows it sees, and its start time
    txAborted,          \* the open transaction is in the failed state
    storeIdx,           \* position of store_to_database in validated_data (0: not in the loop)
    success_count,
    failed_count,
    db_result,          \* outcomes returned by the store_to_database executions
    clock,              \* wall clock (datetime.now(), CURRENT_TIMESTAMP)
    nextId,             \* the SERIAL sequence of invoices.invoices.id
    moveIdx,            \* position of move_processed_files in validated_data
    movePhase,          \* "copy" | "remove": the next call of the iteration
    moved,              \* moved_success / moved_review / moved_failed lists
    moveFaults,         \* file keys whose copy or delete raised
    env,                \* os.environ and the credentials, as the process that selects sees them
    selected,           \* per batch: what get_primary_provider gave its task instance
    llm_calls,          \* the extract_invoice_data calls made, in call order
    loops,              \* per batch, the for loop of process_batch_with_llm between two
                        \* calls: the position it waits at and its results list
    llm_response,       \* the usage the vendor reported for a call and the LLMResponse
                        \* extract_invoice_data built from it
    sessions            \* overlapping executions of store_to_database: per run, its
                        \* validated_data, its position and its open transaction

vars == <<storage, batch_size, pending_keys, batches, batch_texts, extracted_batches,
          task, mapped, extractions, validated_results, validated_data,
          raised, table, tx, txAborted,
          storeIdx, success_count, failed_count, db_result, clock, nextId,
          moveIdx, movePhase, moved, moveFaults, env, selected, llm_calls, llm_response,
          loops, sessions>>

llmVars == <<env, selected, llm_calls, llm_response, loops>>
runVars == <<batch_size, pending_keys, batches, batch_texts, extracted_batches, mapped,
             env, selected, llm_calls, llm_response, loops>>
dbVars == <<table, tx, txAborted, storeIdx, success_count, failed_count, db_result,
            clock, nextId, sessions>>
moveVars == <<storage, moveIdx, movePhase, moved, moveFaults>>

----------------------------------------------------------------------------
(* Bounds of the model *)

MaxDocs == 2

MaxBatchSize == 2

\* executions of store_to_database on the same validated_data (retry, re-run)
MaxExec == 2

\* entries of LLM_FALLBACK_ORDER
MaxFallback == 2

\* files and batch size of the batcher taken on its own
MaxFiles == 10

MaxSize == 5

\* the largest token count a vendor reports for one side of a call
MaxTokens == 1500

----------------------------------------------------------------------------
(* Python values *)

Null == "<None>"

Get(d, k, default) == IF k \in DOMAIN d THEN d[k] ELSE default

Update(d, u) == u @@ d

PyDict(d) == [type |-> "dict", val |-> d]

PyList(l) == [type |-> "list", val |-> l]

SeqSum(s) ==
    LET RECURSIVE Acc(_)
        Acc(i) == IF i = 0 THEN 0 ELSE Acc(i - 1) + s[i]
    IN Acc(Len(s))

Abs(x) == IF x < 0 THEN -x ELSE x

\* data.get("status") == "failed"
IsFailedRecord(data) == Get(data, "status", Null) = "failed"

Concat(ss) ==
    LET RECURSIVE Acc(_)
        Acc(i) == IF i = 0 THEN <<>> ELSE Acc(i - 1) \o ss[i]
    IN Acc(Len(ss))

----------------------------------------------------------------------------
(* include/validators/invoice_models.py *)

Tolerance == 1

IsoDate == "2024-05-01T12:30:00Z"

BadDate == "ontem 12h"

\* datetime.fromisoformat(v.replace('Z', '+00:00')) returns
FromIsoFormatOk(v) == v = IsoDate

Err(loc, msg) == [loc |-> loc, msg |-> msg]

\* Field(..., min_length=1) on a str field
RequiredStr(d, k, loc) ==
    IF k \notin DOMAIN d THEN <<Err(loc, "Field required")>>
    ELSE IF d[k] = Null THEN <<Err(loc, "Input should be a valid string")>>
    ELSE IF d[k] = "" THEN <<Err(loc, "String should have at least 1 character")>>
    ELSE <<>>

\* Field(..., ge=lo) on a required number
RequiredNum(d, k, lo, loc) ==
    IF k \notin DOMAIN d THEN <<Err(loc, "Field required")>>
    ELSE IF d[k] < lo THEN <<Err(loc, "Input should be greater than or equal")>>
    ELSE <<>>

\* Field(default=0.0, ge=0)
DefaultNum(d, k, loc) ==
    IF k \in DOMAIN d /\ d[k] < 0
    THEN <<Err(loc, "Input should be greater than or equal")>>
    ELSE <<>>

\* validate_total with the difference taken one way only (no abs)
validate_total_signed(item, loc) ==
    IF /\ RequiredNum(item, "quantidade", 1, loc) = <<>>
       /\ RequiredNum(item, "preco_unitario", 0, loc) = <<>>
       /\ item.quantidade * item.preco_unitario - item.preco_total > Tolerance
    THEN <<Err(loc, "Value error, Item total mismatch")>>
    ELSE <<>>

\* InvoiceItem.validate_total: runs on a preco_total that passed ge=0
validate_total(item, loc) ==
    IF /\ RequiredNum(item, "quantidade", 1, loc) = <<>>
       /\ RequiredNum(item, "preco_unitario", 0, loc) = <<>>
       /\ Abs(item.preco_total - item.quantidade * item.preco_unitario) > Tolerance
    THEN <<Err(loc, "Value error, Item total mismatch")>>
    ELSE <<>>

\* the errors of InvoiceItem(**item), item i of itens
InvoiceItem(item, i) ==
    RequiredStr(item, "nome", <<"itens", i, "nome">>)
    \o RequiredNum(item, "quantidade", 1, <<"itens", i, "quantidade">>)
    \o RequiredNum(item, "preco_unitario", 0, <<"itens", i, "preco_unitario">>)
    \o (IF RequiredNum(item, "preco_total", 0, <<>>) # <<>>
        THEN RequiredNum(item, "preco_total", 0, <<"itens", i, "preco_total">>)
        ELSE validate_total(item, <<"itens", i, "preco_total">>))

\* InvoiceData.parse_datetime (mode='before'), then the datetime field
parse_datetime(d) ==
    IF "data_hora" \notin DOMAIN d THEN <<Err(<<"data_hora">>, "Field required")>>
    ELSE IF ~FromIsoFormatOk(d.data_hora)
         THEN <<Err(<<"data_hora">>, "Value error, Invalid datetime format")>>
         ELSE <<>>

ItensErrors(d) ==
    IF "itens" \notin DOMAIN d THEN <<Err(<<"itens">>, "Field required")>>
    ELSE IF Len(d.itens) < 1
         THEN <<Err(<<"itens">>, "List should have at least 1 item")>>
         ELSE Concat([i \in 1..Len(d.itens) |-> InvoiceItem(d.itens[i], i)])

\* the field errors of InvoiceData(**d), in field order
FieldErrors(d) ==
    RequiredStr(d, "order_id", <<"order_id">>)
    \o RequiredStr(d, "restaurante", <<"restaurante">>)
    \o parse_datetime(d)
    \o ItensErrors(d)
    \o RequiredNum(d, "subtotal", 0, <<"subtotal">>)
    \o DefaultNum(d, "taxa_entrega", <<"taxa_entrega">>)
    \o DefaultNum(d, "taxa_servico", <<"taxa_servico">>)
    \o DefaultNum(d, "gorjeta", <<"gorjeta">>)
    \o RequiredNum(d, "total", 0, <<"total">>)

\* InvoiceData.validate_invoice_total (mode='after'): the first failing check
\* raises, and the error of a model validator has the empty location ()
validate_invoice_total(d) ==
    LET expected_total == d.subtotal + Get(d, "taxa_entrega", 0)
                          + Get(d, "taxa_servico", 0) + Get(d, "gorjeta", 0)
        items_subtotal == SeqSum([i \in 1..Len(d.itens) |-> d.itens[i].preco_total])
    IN IF Abs(d.total - expected_total) > Tolerance
       THEN <<Err(<<>>, "Value error, Invoice total mismatch")>>
       ELSE IF Abs(d.subtotal - items_subtotal) > Tolerance
            THEN <<Err(<<>>, "Value error, Subtotal mismatch")>>
            ELSE <<>>

\* e.errors() of InvoiceData(**d); <<>> when the model is built
InvoiceData(d) ==
    IF FieldErrors(d) # <<>> THEN FieldErrors(d) ELSE validate_invoice_total(d)

----------------------------------------------------------------------------
(* validate_extractions *)

NoRaise == ""

\* an iteration that appends the fields of its ExtractionResult in place of
\* the extraction it was given
ValidateOneRebuilding(x) ==
    IF x.type # "dict" THEN [raised |-> "AttributeError", rec |-> <<>>]
    ELSE LET extraction == x.val
             errors == InvoiceData(extraction)
             result == [file_key |-> extraction.file_key,
                        provider |-> Get(extraction, "provider", "unknown"),
                        model |-> Get(extraction, "model", "unknown"),
                        tokens_used |-> Get(extraction, "tokens_used", 0),
                        cost |-> Get(extraction, "cost", 0),
                        latency_ms |-> Get(extraction, "latency_ms", 0)]
         IN IF Get(extraction, "status", Null) = "failed"
            THEN [raised |-> NoRaise, rec |-> extraction]
            ELSE IF errors = <<>>
            THEN [raised |-> NoRaise,
                  rec |-> Update(result,
                                 [validation_passed |-> TRUE, status |-> "success"])]
            ELSE IF \E i \in 1..Len(errors) : Len(errors[i].loc) = 0
            THEN [raised |-> "IndexError", rec |-> <<>>]
            ELSE [raised |-> NoRaise,
                  rec |-> Update(extraction,
                                 [validation_passed |-> FALSE,
                                  validation_errors |->
                                      [i \in 1..Len(errors) |->
                                          <<errors[i].loc[1], errors[i].msg>>],
                                  status |-> "needs_review"])]

\* one iteration of the loop over extractions: the exception it ends with, or
\* the record appended to validated_results
ValidateOne(x) ==
    IF x.type # "dict" THEN [raised |-> "AttributeError", rec |-> <<>>]
    ELSE LET extraction == x.val
             errors == InvoiceData(extraction)
         IN IF Get(extraction, "status", Null) = "failed"
            THEN [raised |-> NoRaise, rec |-> extraction]
            ELSE IF errors = <<>>
            THEN [raised |-> NoRaise,
                  rec |-> Update(extraction,
                                 [validation_passed |-> TRUE, status |-> "success"])]
            ELSE IF \E i \in 1..Len(errors) : Len(errors[i].loc) = 0
            THEN [raised |-> "IndexError", rec |-> <<>>]
            ELSE [raised |-> NoRaise,
                  rec |-> Update(extraction,
                                 [validation_passed |-> FALSE,
                                  validation_errors |->
                                      [i \in 1..Len(errors) |->
                                          <<errors[i].loc[1], errors[i].msg>>],
                                  status |-> "needs_review"])]

validate_extractions(xs) ==
    LET r == [i \in 1..Len(xs) |-> ValidateOne(xs[i])]
        bad == {i \in 1..Len(xs) : r[i].raised # NoRaise}
    IN IF bad # {}
       THEN [raised |-> r[CHOOSE i \in bad : \A j \in bad : i <= j].raised,
             value |-> <<>>]
       ELSE [raised |-> NoRaise, value |-> [i \in 1..Len(xs) |-> r[i].rec]]

----------------------------------------------------------------------------
(* Inputs *)

Key(n) == [prefix |-> "incoming/", name |-> n, ext |-> ".pdf"]

\* an object under incoming/ that is no PDF
NotesKey == [prefix |-> "incoming/", name |-> 0, ext |-> ".txt"]

\* what process_batch_with_llm returns for a document it could not extract
FailedResult(key) == [file_key |-> key, status |-> "failed", error |-> "error"]

Provenance(key) ==
    [file_key |-> key, provider |-> "openai", model |-> "gpt-4o-mini",
     tokens_used |-> 1500, cost |-> 45000, latency_ms |-> 900]

Items ==
    {[nome |-> "x", quantidade |-> q, preco_unitario |-> 1, preco_total |-> t] :
        q \in {1, 2}, t \in {2, 4}}

ItemLists ==
    {<<>>} \cup {<<i>> : i \in Items}
    \cup {<<[nome |-> "x", quantidade |-> 2, preco_unitario |-> 1, preco_total |-> 2], i>> :
            i \in {j \in Items : j.quantidade = 2}}

\* JSON objects a provider answers with: the monetary fields vary
InvoiceJson ==
    {[order_id |-> "o1", restaurante |-> "r", data_hora |-> IsoDate,
      itens |-> its, subtotal |-> s, total |-> t] @@ fee :
        its \in ItemLists, s \in {3, 4}, t \in {4, 6},
        fee \in {<<>>, [taxa_entrega |-> 2]}}

\* an answer whose timestamp does not parse and whose total is off as well
UndatedJson ==
    [order_id |-> "o1", restaurante |-> "r", data_hora |-> BadDate,
     itens |-> <<[nome |-> "x", quantidade |-> 2, preco_unitario |-> 1,
                  preco_total |-> 2]>>,
     subtotal |-> 3, total |-> 6]

\* the answers validate_extractions is given results of
ValidateJson == InvoiceJson \cup {UndatedJson}

\* the results of the extraction stage for document n
Extractions(n, jsons) ==
    {FailedResult(Key(n))} \cup {Update(j, Provenance(Key(n))) : j \in jsons}

\* lists of one result per document, for 1..MaxDocs documents
ExtractionLists(jsons) ==
    UNION {{xs \in [1..n -> UNION {Extractions(i, jsons) : i \in 1..n}] :
              \A i \in 1..n : xs[i].file_key = Key(i)} : n \in 1..MaxDocs}

----------------------------------------------------------------------------
(* include/llm/provider_factory.py *)

\* the vendors create_provider has a branch for
Vendors == {"openai", "anthropic", "gemini"}

\* names a deployment may configure: the vendors, a vendor without a branch,
\* a name in another case, a name with a leading blank
VendorNames == Vendors \cup {"ollama", "OpenAI", " gemini"}

\* str.lower()
Lower(s) ==
    CASE s = "OpenAI" -> "openai"
      [] s = "True" -> "true"
      [] OTHER -> s

\* str.strip()
Strip(s) == IF s = " gemini" THEN "gemini" ELSE s

\* os.getenv("<VENDOR>_MODEL", default)
DefaultModel(vendor) ==
    CASE vendor = "openai" -> "gpt-4o-mini"
      [] vendor = "anthropic" -> "claude-3-haiku-20240307"
      [] OTHER -> "gemini-1.5-flash"

\* create_provider: the provider built, or the exception raised; the
\* constructor of a vendor succeeds when e.credentials holds the vendor
create_provider(provider_type, e) ==
    LET t == Lower(provider_type)
    IN IF t \notin Vendors
       THEN [ok |-> FALSE, error |-> "Unsupported provider"]
       ELSE IF t \notin e.credentials
       THEN [ok |-> FALSE, error |-> "api_key"]
       ELSE [ok |-> TRUE, provider_name |-> t, model |-> DefaultModel(t)]

\* all_providers of create_with_fallback
AllProviders(primary_provider, fallback_order) ==
    <<primary_provider>> \o
    SelectSeq([i \in 1..Len(fallback_order) |-> Strip(fallback_order[i])],
              LAMBDA p : p # primary_provider)

\* create_with_fallback(primary_provider) with fallback_order left None: the
\* order is LLM_FALLBACK_ORDER split at the commas
create_with_fallback(primary_provider, e) ==
    LET all_providers == AllProviders(primary_provider, e.LLM_FALLBACK_ORDER)
        RECURSIVE Loop(_)
        Loop(i) ==
            IF i = 0 THEN [providers |-> <<>>, tried_providers |-> {}]
            ELSE LET acc == Loop(i - 1)
                     provider_type == all_providers[i]
                     provider == create_provider(provider_type, e)
                 IN IF provider_type \in acc.tried_providers \/ ~provider.ok
                    THEN acc
                    ELSE [providers |-> Append(acc.providers, provider),
                          tried_providers |-> acc.tried_providers \cup {provider_type}]
        providers == Loop(Len(all_providers)).providers
    IN IF providers = <<>>
       THEN [ok |-> FALSE, error |-> "No LLM providers could be initialized"]
       ELSE [ok |-> TRUE, providers |-> providers]

\* get_primary_provider that takes the last provider built
get_primary_provider_last(e) ==
    IF Lower(e.LLM_ENABLE_FALLBACK) = "true"
    THEN LET r == create_with_fallback(e.LLM_PRIMARY_PROVIDER, e)
         IN IF r.ok THEN r.providers[Len(r.providers)] ELSE r
    ELSE create_provider(e.LLM_PRIMARY_PROVIDER, e)

\* get_primary_provider: the provider returned, or the exception raised
get_primary_provider(e) ==
    IF Lower(e.LLM_ENABLE_FALLBACK) = "true"
    THEN LET r == create_with_fallback(e.LLM_PRIMARY_PROVIDER, e)
         IN IF r.ok THEN r.providers[1] ELSE r
    ELSE create_provider(e.LLM_PRIMARY_PROVIDER, e)

----------------------------------------------------------------------------
(* Pricing and cost of a call.  A rate is held in hundredths of a dollar per
   million tokens (0.15 is 15) and a cost in units of 10^-8 dollar, so that
   the division by 1,000,000 is the change of unit and 0.00045 is 45000. *)

\* the keys of pricing_map of each provider class
PricedModels(provider_name) ==
    CASE provider_name = "openai" -> {"gpt-4o", "gpt-4o-mini", "gpt-4-turbo"}
      [] provider_name = "anthropic" ->
            {"claude-3-opus-20240229", "claude-3-sonnet-20240229",
             "claude-3-haiku-20240307"}
      [] OTHER -> {"gemini-1.5-flash", "gemini-1.5-pro"}

\* _get_pricing of the provider class: pricing_map.get(self.model, <default>)
_get_pricing(provider_name, model) ==
    CASE provider_name = "openai" ->
            (CASE model = "gpt-4o" -> [input |-> 250, output |-> 1000]
               [] model = "gpt-4o-mini" -> [input |-> 15, output |-> 60]
               [] model = "gpt-4-turbo" -> [input |-> 1000, output |-> 3000]
               [] OTHER -> [input |-> 15, output |-> 60])
      [] provider_name = "anthropic" ->
            (CASE model = "claude-3-opus-20240229" -> [input |-> 1500, output |-> 7500]
               [] model = "claude-3-sonnet-20240229" -> [input |-> 300, output |-> 1500]
               [] model = "claude-3-haiku-20240307" -> [input |-> 25, output |-> 125]
               [] OTHER -> [input |-> 25, output |-> 125])
      [] OTHER ->
            (CASE model = "gemini-1.5-flash" -> [input |-> 0, output |-> 0]
               [] model = "gemini-1.5-pro" -> [input |-> 125, output |-> 500]
               [] OTHER -> [input |-> 0, output |-> 0])

\* _calculate_cost that prices every token at the input rate
_calculate_cost_input_rate(provider, input_tokens, output_tokens) ==
    LET pricing == _get_pricing(provider.provider_name, provider.model)
    IN input_tokens * pricing.input + output_tokens * pricing.input

\* _calculate_cost of the provider
_calculate_cost(provider, input_tokens, output_tokens) ==
    LET pricing == _get_pricing(provider.provider_name, provider.model)
    IN input_tokens * pricing.input + output_tokens * pricing.output

\* the LLMResponse extract_invoice_data builds from the usage of the answer
LLMResponse(provider, input_tokens, output_tokens) ==
    [provider |-> provider.provider_name,
     model |-> provider.model,
     tokens_used |-> input_tokens + output_tokens,
     cost |-> _calculate_cost(provider, input_tokens, output_tokens),
     latency_ms |-> 900]

\* the value of llm_response before a call returned
NoResponse == [answered |-> FALSE]

\* the value of selected[b] before the task instance of batch b ran
NotSelected == [ok |-> FALSE, error |-> "<not run>"]

\* the defaults of the os.getenv calls of the factory, with every credential set
DefaultEnv ==
    [LLM_PRIMARY_PROVIDER |-> "openai",
     LLM_FALLBACK_ORDER |-> <<"gemini", "openai", "anthropic">>,
     LLM_ENABLE_FALLBACK |-> "true",
     credentials |-> Vendors]

InitLlm ==
    /\ env = DefaultEnv
    /\ selected = <<>>
    /\ llm_calls = <<>>
    /\ llm_response = NoResponse
    /\ loops = <<>>

----------------------------------------------------------------------------
(* Initial values *)

TaskNames ==
    {"list_pending_invoices", "create_batches", "validate_extractions",
     "store_to_database", "move_processed_files", "generate_summary"}

InitRun ==
    /\ batch_size = 1
    /\ pending_keys = <<>>
    /\ batches = <<>>
    /\ batch_texts = <<>>
    /\ extracted_batches = <<>>
    /\ mapped = [extract_batch_texts |-> <<>>, process_batch_with_llm |-> <<>>]
    /\ InitLlm

\* the runs that may overlap: a run and a second run, or a retried stage
Runs == {1, 2}

\* the connection of a run before store_to_database opened it
Idle(data) ==
    [data |-> data, state |-> "idle", idx |-> 0, ins |-> {}, upd |-> {},
     aborted |-> FALSE, started |-> 0, ended |-> 0]

InitDb ==
    /\ table = {}
    /\ tx = [rows |-> {}, started |-> 0]
    /\ txAborted = FALSE
    /\ storeIdx = 0
    /\ success_count = 0
    /\ failed_count = 0
    /\ db_result = <<>>
    /\ clock = 0
    /\ nextId = 1
    /\ sessions = [r \in Runs |-> Idle(<<>>)]

InitMove ==
    /\ moveIdx = 0
    /\ movePhase = "copy"
    /\ moved = [success |-> <<>>, review |-> <<>>, failed |-> <<>>]
    /\ moveFaults = {}

----------------------------------------------------------------------------
(* Provider selection on its own *)

\* the values of LLM_FALLBACK_ORDER after split(","): at least one entry
FallbackOrders ==
    UNION {[1..n -> VendorNames] : n \in 1..MaxFallback}
    \cup {DefaultEnv.LLM_FALLBACK_ORDER}

Envs ==
    [LLM_PRIMARY_PROVIDER : VendorNames,
     LLM_FALLBACK_ORDER : FallbackOrders,
     LLM_ENABLE_FALLBACK : {"true", "True", "false"},
     credentials : SUBSET Vendors]

\* provider = LLMProviderFactory.get_primary_provider()
GetPrimaryProvider ==
    /\ selected = <<NotSelected>>
    /\ selected' = <<get_primary_provider(env)>>
    /\ UNCHANGED <<storage, batch_size, pending_keys, batches, batch_texts,
                   extracted_batches, mapped, env, llm_calls, llm_response, loops,
                   task, extractions, validated_results, validated_data, raised, dbVars,
                   moveIdx, movePhase, moved, moveFaults>>

InitSelect ==
    /\ env \in Envs
    /\ selected = <<NotSelected>>
    /\ llm_calls = <<>>
    /\ llm_response = NoResponse
    /\ loops = <<>>
    /\ storage = {}
    /\ batch_size = 1
    /\ pending_keys = <<>>
    /\ batches = <<>>
    /\ batch_texts = <<>>
    /\ extracted_batches = <<>>
    /\ mapped = [extract_batch_texts |-> <<>>, process_batch_with_llm |-> <<>>]
    /\ task = [t \in TaskNames |-> "none"]
    /\ extractions = <<>>
    /\ validated_results = <<>>
    /\ validated_data = <<>>
    /\ raised = NoRaise
    /\ InitDb /\ InitMove

NextSelect == GetPrimaryProvider

SpecSelect == InitSelect /\ [][NextSelect]_vars

----------------------------------------------------------------------------
(* The validate_extractions task *)

\* one iteration of the loop of validate_extractions; the last one returns
ValidateExtractions ==
    /\ task["validate_extractions"] = "running"
    /\ Len(validated_results) < Len(extractions)
    /\ LET r == ValidateOne(extractions[Len(validated_results) + 1])
           last == Len(validated_results) + 1 = Len(extractions)
       IN IF r.raised = NoRaise
          THEN /\ validated_results' = Append(validated_results, r.rec)
               /\ validated_data' = IF last THEN validated_results' ELSE validated_data
               /\ task' = IF last
                          THEN [task EXCEPT !["validate_extractions"] = "success"]
                          ELSE task
               /\ UNCHANGED raised
          ELSE /\ raised' = r.raised
               /\ task' = [task EXCEPT !["validate_extractions"] = "failed"]
               /\ UNCHANGED <<validated_results, validated_data>>
    /\ UNCHANGED <<runVars, dbVars, moveVars, extractions>>

\* validate_extractions called on a list of extraction results
InitValidate ==
    /\ \E xs \in ExtractionLists(ValidateJson) :
          extractions = [i \in 1..Len(xs) |-> PyDict(xs[i])]
    /\ task = [t \in TaskNames |->
                 IF t = "validate_extractions" THEN "running" ELSE "none"]
    /\ validated_results = <<>>
    /\ validated_data = <<>>
    /\ raised = NoRaise
    /\ storage = {}
    /\ InitRun /\ InitDb /\ InitMove

NextValidate == ValidateExtractions

SpecValidate == InitValidate /\ [][NextValidate]_vars

----------------------------------------------------------------------------
(* The tasks before the gather *)

Min(a, b) == IF a < b THEN a ELSE b

\* client.list_objects(bucket, prefix, recursive=True): keys in name order
RECURSIVE KeySeq(_)
KeySeq(S) ==
    IF S = {} THEN <<>>
    ELSE LET m == CHOOSE k \in S : \A j \in S : k.name <= j.name
         IN <<m>> \o KeySeq(S \ {m})

ListObjects(prefix) == KeySeq({k \in storage : k.prefix = prefix})

ListPendingInvoices ==
    /\ task["list_pending_invoices"] = "none"
    /\ \/ pending_keys' = SelectSeq(ListObjects("incoming/"), LAMBDA k : k.ext = ".pdf")
       \/ pending_keys' = <<>>      \* S3Error
    /\ task' = [task EXCEPT !["list_pending_invoices"] = "success"]
    /\ UNCHANGED <<batch_size, batches, batch_texts, extracted_batches, mapped,
                   extractions, validated_results, validated_data, raised,
                   dbVars, moveVars, llmVars>>

\* create_batches that keeps the full groups only
create_batches_full(file_keys, size) ==
    IF file_keys = <<>> THEN <<>>
    ELSE [b \in 1..(Len(file_keys) \div size) |->
            SubSeq(file_keys, (b - 1) * size + 1, b * size)]

create_batches(file_keys, size) ==
    IF file_keys = <<>> THEN <<>>
    ELSE [b \in 1..((Len(file_keys) + size - 1) \div size) |->
            SubSeq(file_keys, (b - 1) * size + 1, Min(b * size, Len(file_keys)))]

\* create_batches, and the expansion of the two mapped tasks over its result
CreateBatches ==
    /\ task["list_pending_invoices"] = "success"
    /\ task["create_batches"] = "none"
    /\ batches' = create_batches(pending_keys, batch_size)
    /\ batch_texts' = [b \in 1..Len(batches') |-> <<>>]
    /\ extracted_batches' = [b \in 1..Len(batches') |-> <<>>]
    /\ mapped' = [extract_batch_texts |-> [b \in 1..Len(batches') |-> "none"],
                  process_batch_with_llm |-> [b \in 1..Len(batches') |-> "none"]]
    /\ selected' = [b \in 1..Len(batches') |-> NotSelected]
    /\ task' = [task EXCEPT !["create_batches"] = "success"]
    /\ UNCHANGED <<batch_size, pending_keys, extractions, validated_results,
                   validated_data, raised, dbVars, moveVars, env, llm_calls,
                   llm_response, loops>>

----------------------------------------------------------------------------
(* One call of extract_invoice_data taken on its own: a provider of any
   vendor and model, and the usage the vendor reports *)

\* the models a provider may be configured with (<VENDOR>_MODEL): those of
\* its pricing table and one the table does not have
Models(provider_name) == PricedModels(provider_name) \cup {"other-model"}

Providers ==
    UNION {{[ok |-> TRUE, provider_name |-> v, model |-> m] : m \in Models(v)} :
              v \in Vendors}

TokenCounts == {0, 1, 500, 1000, MaxTokens}

\* response = provider.extract_invoice_data(...): the vendor answers with a
\* usage, the provider prices it
ExtractInvoiceData ==
    /\ selected[1].ok
    /\ ~llm_response.answered
    /\ \E input_tokens, output_tokens \in TokenCounts :
          llm_response' =
              [answered |-> TRUE,
               usage |-> [input_tokens |-> input_tokens,
                          output_tokens |-> output_tokens],
               response |-> LLMResponse(selected[1], input_tokens, output_tokens)]
    /\ UNCHANGED <<storage, batch_size, pending_keys, batches, batch_texts,
                   extracted_batches, mapped, env, selected, llm_calls, loops, task,
                   extractions, validated_results, validated_data, raised, dbVars,
                   moveIdx, movePhase, moved, moveFaults>>

InitCost ==
    /\ env = DefaultEnv
    /\ selected \in {<<p>> : p \in Providers}
    /\ llm_calls = <<>>
    /\ llm_response = NoResponse
    /\ loops = <<>>
    /\ storage = {}
    /\ batch_size = 1
    /\ pending_keys = <<>>
    /\ batches = <<>>
    /\ batch_texts = <<>>
    /\ extracted_batches = <<>>
    /\ mapped = [extract_batch_texts |-> <<>>, process_batch_with_llm |-> <<>>]
    /\ task = [t \in TaskNames |-> "none"]
    /\ extractions = <<>>
    /\ validated_results = <<>>
    /\ validated_data = <<>>
    /\ raised = NoRaise
    /\ InitDb /\ InitMove

NextCost == ExtractInvoiceData

SpecCost == InitCost /\ [][NextCost]_vars

\* the file lists given to the batcher: n keys, in name order or reversed
KeyLists ==
    UNION {{[i \in 1..n |-> Key(i)], [i \in 1..n |-> Key(n + 1 - i)]} : n \in 0..MaxFiles}

\* create_batches called on a file list, with a batch size of at least 1
InitBatch ==
    /\ pending_keys \in KeyLists
    /\ batch_size \in 1..MaxSize
    /\ storage = {pending_keys[i] : i \in 1..Len(pending_keys)}
    /\ batches = <<>>
    /\ batch_texts = <<>>
    /\ extracted_batches = <<>>
    /\ mapped = [extract_batch_texts |-> <<>>, process_batch_with_llm |-> <<>>]
    /\ InitLlm
    /\ task = [t \in TaskNames |->
                 IF t = "list_pending_invoices" THEN "success" ELSE "none"]
    /\ extractions = <<>>
    /\ validated_results = <<>>
    /\ validated_data = <<>>
    /\ raised = NoRaise
    /\ InitDb /\ InitMove

NextBatch == CreateBatches

SpecBatch == InitBatch /\ [][NextBatch]_vars

\* what extract_batch_texts appends for one key
ExtractedText(key, outcome) ==
    CASE outcome = "text" -> [file_key |-> key, text |-> "text", num_pages |-> 1]
      [] outcome = "blank" -> [file_key |-> key, text |-> "", num_pages |-> 1]
      [] OTHER -> [file_key |-> key, text |-> "", error |-> "error"]

ExtractBatchTexts(b) ==
    /\ mapped.extract_batch_texts[b] = "none"
    /\ \E outcome \in [1..Len(batches[b]) -> {"text", "blank", "error"}] :
          batch_texts' = [batch_texts EXCEPT ![b] =
              [i \in 1..Len(batches[b]) |-> ExtractedText(batches[b][i], outcome[i])]]
    /\ mapped' = [mapped EXCEPT !.extract_batch_texts[b] = "success"]
    /\ UNCHANGED <<storage, batch_size, pending_keys, batches, extracted_batches, task,
                   extractions, validated_results, validated_data, raised, dbVars,
                   moveIdx, movePhase, moved, moveFaults, llmVars>>

\* an invoice the checks of the validator accept
GoodJson ==
    [order_id |-> "o1", restaurante |-> "r", data_hora |-> IsoDate,
     itens |-> <<[nome |-> "x", quantidade |-> 2, preco_unitario |-> 1,
                  preco_total |-> 2]>>,
     subtotal |-> 3, total |-> 4]

\* the same invoice in an answer that has keys named like those the pipeline
\* sets on a result
ClashingJson ==
    GoodJson @@ [file_key |-> [prefix |-> "incoming/", name |-> 0, ext |-> ".pdf"],
                 provider |-> "answer", model |-> "answer", tokens_used |-> 0,
                 cost |-> 0, latency_ms |-> 0]

\* the same invoice in an answer that has a key named status
StatusJson == GoodJson @@ [status |-> "failed"]

\* the provider's answers in a run
RunJson ==
    {j \in InvoiceJson :
        /\ j.itens = <<[nome |-> "x", quantidade |-> 2, preco_unitario |-> 1,
                        preco_total |-> 2]>>
        /\ j.subtotal = 3
        /\ "taxa_entrega" \notin DOMAIN j}
    \cup {ClashingJson, StatusJson}

\* a document process_batch_with_llm does not submit: extract_batch_texts
\* recorded an error for it, or its text is empty
Unreadable(pdf_data) == "error" \in DOMAIN pdf_data \/ pdf_data.text = ""

\* the answers to a call: the call raised, json.loads raised on the content,
\* or the JSON object of llm_response.content
Raise == <<"raise">>

Malformed == <<"malformed">>

\* the keys invoice_data.update(...) sets from the document and from the
\* LLMResponse of its call (a call of 1,000 input and 500 output tokens)
ResultFields(pdf_data, provider) ==
    LET response == LLMResponse(provider, 1000, 500)
    IN [file_key |-> pdf_data.file_key,
        provider |-> response.provider,
        model |-> response.model,
        tokens_used |-> response.tokens_used,
        cost |-> response.cost,
        latency_ms |-> response.latency_ms]

\* a result in which the keys of the answer stand where the answer has them
LlmResultAnswerFirst(pdf_data, provider, answer) ==
    IF Unreadable(pdf_data)
    THEN [file_key |-> pdf_data.file_key, status |-> "failed",
          error |-> Get(pdf_data, "error", "No text extracted")]
    ELSE IF answer = Raise
    THEN [file_key |-> pdf_data.file_key, status |-> "failed", error |-> "error"]
    ELSE IF answer = Malformed
    THEN [file_key |-> pdf_data.file_key, status |-> "failed",
          error |-> "Expecting value"]
    ELSE Update(ResultFields(pdf_data, provider), answer)

\* what process_batch_with_llm appends for one document
LlmResult(pdf_data, provider, answer) ==
    IF Unreadable(pdf_data)
    THEN [file_key |-> pdf_data.file_key, status |-> "failed",
          error |-> Get(pdf_data, "error", "No text extracted")]
    ELSE IF answer = Raise
    THEN [file_key |-> pdf_data.file_key, status |-> "failed", error |-> "error"]
    ELSE IF answer = Malformed
    THEN [file_key |-> pdf_data.file_key, status |-> "failed",
          error |-> "Expecting value"]
    ELSE Update(answer, ResultFields(pdf_data, provider))

\* the extract_invoice_data call made for one document
LlmCall(pdf_data, provider, answer) ==
    [file_key |-> pdf_data.file_key, provider |-> provider.provider_name,
     answered |-> IF answer \in {Raise, Malformed} THEN answer[1] ELSE "content",
     keys |-> IF answer \in {Raise, Malformed} THEN {} ELSE DOMAIN answer]

\* process_batch_with_llm that gives up the batch at the first call that fails
process_batch_stopping(batch_data, selection, answers) ==
    IF ~selection.ok
    THEN [results |-> [i \in 1..Len(batch_data) |->
                         [file_key |-> batch_data[i].file_key, status |-> "failed",
                          error |-> selection.error]],
          calls |-> <<>>]
    ELSE LET RECURSIVE Loop(_)
             Loop(i) ==
                 IF i = 0 THEN [results |-> <<>>, calls |-> <<>>, stopped |-> FALSE]
                 ELSE LET acc == Loop(i - 1)
                          pdf_data == batch_data[i]
                      IN IF acc.stopped
                         THEN [acc EXCEPT !.results = Append(@,
                                  [file_key |-> pdf_data.file_key, status |-> "failed",
                                   error |-> "error"])]
                         ELSE [results |-> Append(acc.results,
                                      LlmResult(pdf_data, selection, answers[i])),
                               calls |-> IF Unreadable(pdf_data) THEN acc.calls
                                         ELSE Append(acc.calls,
                                                LlmCall(pdf_data, selection, answers[i])),
                               stopped |-> ~Unreadable(pdf_data)
                                           /\ answers[i] \in {Raise, Malformed}]
             end == Loop(Len(batch_data))
         IN [results |-> end.results, calls |-> end.calls]

\* process_batch_with_llm that goes on to the loop when no provider was selected
process_batch_unselected(batch_data, selection, answers) ==
    LET p == [provider_name |-> "openai", model |-> DefaultModel("openai")]
    IN [results |-> [i \in 1..Len(batch_data) |-> LlmResult(batch_data[i], p, answers[i])],
        calls |-> LET RECURSIVE Calls(_)
                      Calls(i) ==
                          IF i = 0 THEN <<>>
                          ELSE IF Unreadable(batch_data[i]) THEN Calls(i - 1)
                          ELSE Append(Calls(i - 1), LlmCall(batch_data[i], p, answers[i]))
                  IN Calls(Len(batch_data))]

\* process_batch_with_llm: the list returned and the calls made to the
\* provider; selection is what get_primary_provider gave
process_batch_with_llm(batch_data, selection, answers) ==
    IF ~selection.ok
    THEN [results |-> [i \in 1..Len(batch_data) |->
                         [file_key |-> batch_data[i].file_key, status |-> "failed",
                          error |-> selection.error]],
          calls |-> <<>>]
    ELSE LET RECURSIVE Loop(_)
             Loop(i) ==
                 IF i = 0 THEN [results |-> <<>>, calls |-> <<>>]
                 ELSE LET acc == Loop(i - 1)
                          pdf_data == batch_data[i]
                      IN [results |-> Append(acc.results,
                                             LlmResult(pdf_data, selection, answers[i])),
                          calls |-> IF Unreadable(pdf_data) THEN acc.calls
                                    ELSE Append(acc.calls, LlmCall(pdf_data, selection, answers[i]))]
         IN Loop(Len(batch_data))

\* the credentials a task instance finds: all of them, none for the primary
\* and the first fallback, none at all
RunCredentials == {Vendors, {"anthropic"}, {}}

\* one task instance of process_batch_with_llm: it selects the provider in
\* the environment its process sees, then loops over the batch
ProcessBatchWithLLM(b) ==
    /\ mapped.extract_batch_texts[b] = "success"
    /\ mapped.process_batch_with_llm[b] = "none"
    /\ \E credentials \in RunCredentials :
          env' = [env EXCEPT !.credentials = credentials]
    /\ selected' = [selected EXCEPT ![b] = get_primary_provider(env')]
    /\ \E answers \in [1..Len(batch_texts[b]) -> {Raise, Malformed} \cup RunJson] :
          LET r == process_batch_with_llm(batch_texts[b], selected'[b], answers)
          IN /\ extracted_batches' = [extracted_batches EXCEPT ![b] = r.results]
             /\ llm_calls' = llm_calls \o
                    [i \in 1..Len(r.calls) |-> [batch |-> b] @@ r.calls[i]]
    /\ mapped' = [mapped EXCEPT !.process_batch_with_llm[b] = "success"]
    /\ UNCHANGED <<storage, batch_size, pending_keys, batches, batch_texts, task,
                   extractions, validated_results, validated_data, raised, dbVars,
                   moveIdx, movePhase, moved, moveFaults, llm_response, loops>>

----------------------------------------------------------------------------
(* The task instances of process_batch_with_llm step by step: an instance
   runs until provider.extract_invoice_data blocks it, and goes on when the
   call returns or raises.  Instances of different batches run side by side. *)

\* the position, from i on, of the next document the loop submits to the
\* provider; Len(batch_data) + 1 when there is none
RECURSIVE NextSubmitted(_, _)
NextSubmitted(batch_data, i) ==
    IF i > Len(batch_data) THEN i
    ELSE IF Unreadable(batch_data[i]) THEN NextSubmitted(batch_data, i + 1)
    ELSE i

\* the results the loop appends for the documents from..to-1, none submitted
Skipped(batch_data, from, to) ==
    [k \in 1..(to - from) |-> LlmResult(batch_data[from + k - 1], NotSelected, Raise)]

PendingCall(b, pdf_data, provider) ==
    [batch |-> b, file_key |-> pdf_data.file_key, provider |-> provider.provider_name,
     answered |-> "pending"]

\* a loop that submits every document left without waiting for the answers
IssuedAhead(b, batch_data, provider, i) ==
    LET rest == SelectSeq(SubSeq(batch_data, i, Len(batch_data)),
                          LAMBDA pdf_data : ~Unreadable(pdf_data))
    IN [k \in 1..Len(rest) |-> PendingCall(b, rest[k], provider)]

\* the calls the loop issues when it runs on from position i: the call for
\* the next document it submits, in which it blocks
Issued(b, batch_data, provider, i) ==
    LET n == NextSubmitted(batch_data, i)
    IN IF n > Len(batch_data) THEN <<>>
       ELSE <<PendingCall(b, batch_data[n], provider)>>

\* the loop of batch b runs on from position i with the results it has, up to
\* its next call or to the return statement
RunLoop(b, provider, results, i, calls) ==
    LET batch_data == batch_texts[b]
        n == NextSubmitted(batch_data, i)
        appended == results \o Skipped(batch_data, i, n)
    IN /\ loops' = [loops EXCEPT ![b] = [pos |-> n, results |-> appended]]
       /\ llm_calls' = calls \o Issued(b, batch_data, provider, i)
       /\ IF n > Len(batch_data)
          THEN /\ extracted_batches' = [extracted_batches EXCEPT ![b] = appended]
               /\ mapped' = [mapped EXCEPT !.process_batch_with_llm[b] = "success"]
          ELSE /\ mapped' = [mapped EXCEPT !.process_batch_with_llm[b] = "running"]
               /\ UNCHANGED extracted_batches

\* the task instance of batch b starts: selection, then the loop up to its
\* first call
ProcessBatchBegin(b) ==
    /\ mapped.extract_batch_texts[b] = "success"
    /\ mapped.process_batch_with_llm[b] = "none"
    /\ selected' = [selected EXCEPT ![b] = get_primary_provider(env)]
    /\ IF ~selected'[b].ok
       THEN /\ extracted_batches' = [extracted_batches EXCEPT ![b] =
                    process_batch_with_llm(batch_texts[b], selected'[b], <<>>).results]
            /\ mapped' = [mapped EXCEPT !.process_batch_with_llm[b] = "success"]
            /\ UNCHANGED <<loops, llm_calls>>
       ELSE RunLoop(b, selected'[b], <<>>, 1, llm_calls)
    /\ UNCHANGED <<storage, batch_size, pending_keys, batches, batch_texts, task, env,
                   extractions, validated_results, validated_data, raised, dbVars,
                   moveIdx, movePhase, moved, moveFaults, llm_response>>

\* how a call ends: it raises, or it returns a JSON object
CallAnswers == {Raise} \cup {j \in RunJson : j.total = 4}

\* the call the task instance of batch b waits in returns or raises: the
\* result of the document is appended and the loop runs on
ProviderAnswers(b) ==
    /\ mapped.process_batch_with_llm[b] = "running"
    /\ LET pdf_data == batch_texts[b][loops[b].pos]
           c == CHOOSE c \in 1..Len(llm_calls) :
                   /\ llm_calls[c].batch = b
                   /\ llm_calls[c].file_key = pdf_data.file_key
                   /\ llm_calls[c].answered = "pending"
       IN \E answer \in CallAnswers :
             RunLoop(b, selected[b],
                     Append(loops[b].results, LlmResult(pdf_data, selected[b], answer)),
                     loops[b].pos + 1,
                     [llm_calls EXCEPT ![c].answered =
                         LlmCall(pdf_data, selected[b], answer).answered])
    /\ UNCHANGED <<storage, batch_size, pending_keys, batches, batch_texts, task, env,
                   selected, extractions, validated_results, validated_data, raised,
                   dbVars, moveIdx, movePhase, moved, moveFaults, llm_response>>

\* the texts extract_batch_texts returned for a batch
BatchTexts(batch) ==
    {[i \in 1..Len(batch) |-> ExtractedText(batch[i], outcome[i])] :
        outcome \in [1..Len(batch) -> {"text", "error"}]}

\* the run after extract_batch_texts: one more document than MaxDocs, so that
\* a batch of two documents has another batch beside it
InitCalls ==
    /\ \E n \in 1..(MaxDocs + 1) : storage = {Key(i) : i \in 1..n}
    /\ batch_size \in 1..MaxBatchSize
    /\ pending_keys = KeySeq(storage)
    /\ batches = create_batches(pending_keys, batch_size)
    /\ batch_texts \in {t \in [1..Len(batches) -> UNION {BatchTexts(batches[b]) :
                                                          b \in 1..Len(batches)}] :
                            \A b \in 1..Len(batches) : t[b] \in BatchTexts(batches[b])}
    /\ extracted_batches = [b \in 1..Len(batches) |-> <<>>]
    /\ mapped = [extract_batch_texts |-> [b \in 1..Len(batches) |-> "success"],
                 process_batch_with_llm |-> [b \in 1..Len(batches) |-> "none"]]
    /\ env \in {DefaultEnv, [DefaultEnv EXCEPT !.credentials = {}]}
    /\ selected = [b \in 1..Len(batches) |-> NotSelected]
    /\ llm_calls = <<>>
    /\ llm_response = NoResponse
    /\ loops = [b \in 1..Len(batches) |-> [pos |-> 0, results |-> <<>>]]
    /\ task = [t \in TaskNames |->
                 IF t \in {"list_pending_invoices", "create_batches"}
                 THEN "success" ELSE "none"]
    /\ extractions = <<>>
    /\ validated_results = <<>>
    /\ validated_data = <<>>
    /\ raised = NoRaise
    /\ InitDb /\ InitMove

NextCalls ==
    \/ \E b \in 1..Len(batches) : ProcessBatchBegin(b)
    \/ \E b \in 1..Len(batches) : ProviderAnswers(b)

SpecCalls == InitCalls /\ [][NextCalls]_vars

----------------------------------------------------------------------------
(* The gather: flattened_extractions = extracted_batches *)

AllBatchesExtracted ==
    /\ task["create_batches"] = "success"
    /\ \A b \in 1..Len(batches) : mapped.process_batch_with_llm[b] = "success"

\* the value the scheduler passes for the output of the mapped task: one entry
\* per task instance, each the list that instance returned
flattened_extractions == [b \in 1..Len(batches) |-> PyList(extracted_batches[b])]

Downstream ==
    {"validate_extractions", "store_to_database", "move_processed_files",
     "generate_summary"}

\* validate_extractions is started once every mapped instance succeeded
GatherExtractions ==
    /\ AllBatchesExtracted
    /\ Len(batches) > 0
    /\ task["validate_extractions"] = "none"
    /\ extractions' = flattened_extractions
    /\ task' = [task EXCEPT !["validate_extractions"] = "running"]
    /\ UNCHANGED <<runVars, validated_results, validated_data, raised, dbVars, moveVars>>

\* a mapped task expanded over an empty list is skipped, and so is everything
\* downstream of it
SkipEmptyRun ==
    /\ task["create_batches"] = "success"
    /\ Len(batches) = 0
    /\ task["validate_extractions"] = "none"
    /\ task' = [t \in TaskNames |-> IF t \in Downstream THEN "skipped" ELSE task[t]]
    /\ UNCHANGED <<runVars, extractions, validated_results, validated_data, raised,
                   dbVars, moveVars>>

\* the tasks downstream of a failed validate_extractions are not run
UpstreamFailed ==
    /\ task["validate_extractions"] = "failed"
    /\ task["generate_summary"] = "none"
    /\ task' = [t \in TaskNames |->
                  IF t \in Downstream \ {"validate_extractions"}
                  THEN "upstream_failed" ELSE task[t]]
    /\ UNCHANGED <<runVars, extractions, validated_results, validated_data, raised,
                   dbVars, moveVars>>

----------------------------------------------------------------------------
(* A run of the DAG as it is wired *)

Init ==
    /\ \E n \in 0..MaxDocs : \E other \in SUBSET {NotesKey} :
          storage = {Key(i) : i \in 1..n} \cup other
    /\ batch_size \in 1..MaxBatchSize
    /\ pending_keys = <<>>
    /\ batches = <<>>
    /\ batch_texts = <<>>
    /\ extracted_batches = <<>>
    /\ mapped = [extract_batch_texts |-> <<>>, process_batch_with_llm |-> <<>>]
    /\ env \in {[DefaultEnv EXCEPT !.LLM_ENABLE_FALLBACK = f] : f \in {"true", "false"}}
    /\ selected = <<>>
    /\ llm_calls = <<>>
    /\ llm_response = NoResponse
    /\ loops = <<>>
    /\ task = [t \in TaskNames |-> "none"]
    /\ extractions = <<>>
    /\ validated_results = <<>>
    /\ validated_data = <<>>
    /\ raised = NoRaise
    /\ InitDb /\ InitMove

Next ==
    \/ ListPendingInvoices
    \/ CreateBatches
    \/ \E b \in 1..Len(batches) : ExtractBatchTexts(b)
    \/ \E b \in 1..Len(batches) : ProcessBatchWithLLM(b)
    \/ GatherExtractions
    \/ ValidateExtractions
    \/ SkipEmptyRun
    \/ UpstreamFailed

Spec == Init /\ [][Next]_vars

RunFinished == task["generate_summary"] \in {"success", "upstream_failed", "skipped"}

----------------------------------------------------------------------------
(* store_to_database *)

\* a restaurant name of more than 255 characters: restaurant is VARCHAR(255)
LongName == "r256"

\* json.dumps(data)
JsonDumps(d) == [json |-> d]

\* the text of the order_id parameter: the given value, or the default
\* f"UNKNOWN_{datetime.now().timestamp()}" when the dict has no such key
OrderIdParam(data, now) ==
    IF "order_id" \in DOMAIN data
    THEN [text |-> data.order_id, n |-> 0]
    ELSE [text |-> "UNKNOWN_", n |-> now]

\* the INSERT is rejected by the server (a value does not fit its column)
DbRejects(data) == Get(data, "restaurante", Null) = LongName

\* the row the INSERT proposes
NewRow(data, id, now, started) ==
    [id |-> id,
     order_id |-> OrderIdParam(data, now),
     restaurant |-> Get(data, "restaurante", Null),
     subtotal |-> Get(data, "subtotal", 0),
     total |-> Get(data, "total", 0),
     file_key |-> Get(data, "file_key", Null),
     validation_passed |-> Get(data, "validation_passed", FALSE),
     raw_data |-> JsonDumps(data),
     created_at |-> started,
     updated_at |-> started]

\* ON CONFLICT (order_id) DO UPDATE that overwrites the whole row
UpsertOverwriting(rows, new) ==
    LET hit == {r \in rows : r.order_id = new.order_id /\ new.order_id.text # Null}
    IN IF hit = {} THEN rows \cup {new}
       ELSE (rows \ hit) \cup {[new EXCEPT !.id = r.id, !.created_at = r.created_at] :
                                 r \in hit}

\* INSERT ... ON CONFLICT (order_id) DO UPDATE SET updated_at, raw_data;
\* order_id is UNIQUE, and NULLs never conflict
Upsert(rows, new) ==
    LET hit == {r \in rows : r.order_id = new.order_id /\ new.order_id.text # Null}
    IN IF hit = {} THEN rows \cup {new}
       ELSE (rows \ hit) \cup {[r EXCEPT !.updated_at = new.updated_at,
                                         !.raw_data = new.raw_data] : r \in hit}

\* pg_hook.get_conn(), CREATE ... IF NOT EXISTS: a transaction opens
StoreBegin ==
    /\ task["validate_extractions"] = "success"
    /\ task["store_to_database"] \in {"none", "success"}
    /\ Len(db_result) < MaxExec
    /\ tx' = [rows |-> table, started |-> clock]
    /\ txAborted' = FALSE
    /\ storeIdx' = 1
    /\ success_count' = 0
    /\ failed_count' = 0
    /\ clock' = clock + 1
    /\ task' = [task EXCEPT !["store_to_database"] = "running"]
    /\ UNCHANGED <<runVars, extractions, validated_results, validated_data, raised,
                   table, db_result, nextId, sessions, moveVars>>

\* one iteration of the loop over validated_data
StoreRow ==
    /\ task["store_to_database"] = "running"
    /\ storeIdx \in 1..Len(validated_data)
    /\ LET data == validated_data[storeIdx]
           skipped == Get(data, "status", Null) = "failed"
           \* datetime.fromisoformat raises before the statement is sent
           badDate == "data_hora" \in DOMAIN data /\ ~FromIsoFormatOk(data.data_hora)
           \* the statement reaches the server; a failed transaction refuses it
           sent == ~skipped /\ ~badDate
           executed == sent /\ ~txAborted /\ ~DbRejects(data)
       IN /\ tx' = IF executed
                   THEN [tx EXCEPT !.rows =
                           Upsert(tx.rows, NewRow(data, nextId, clock, tx.started))]
                   ELSE tx
          /\ nextId' = IF executed THEN nextId + 1 ELSE nextId
          /\ txAborted' = (txAborted \/ (sent /\ DbRejects(data)))
          /\ success_count' = IF executed THEN success_count + 1 ELSE success_count
          /\ failed_count' = IF executed THEN failed_count ELSE failed_count + 1
    /\ clock' = clock + 1
    /\ storeIdx' = storeIdx + 1
    /\ UNCHANGED <<runVars, task, extractions, validated_results, validated_data, raised,
                   table, db_result, sessions, moveVars>>

\* conn.commit() (a failed transaction is rolled back) and the return
StoreCommit ==
    /\ task["store_to_database"] = "running"
    /\ storeIdx = Len(validated_data) + 1
    /\ table' = IF txAborted THEN table ELSE tx.rows
    /\ db_result' = Append(db_result,
                           [success_count |-> success_count,
                            failed_count |-> failed_count,
                            total_processed |-> Len(validated_data)])
    /\ storeIdx' = 0
    /\ task' = [task EXCEPT !["store_to_database"] = "success"]
    /\ UNCHANGED <<runVars, extractions, validated_results, validated_data, raised,
                   tx, txAborted, success_count, failed_count, clock, nextId, sessions,
                   moveVars>>

\* the JSON objects of the persistence inputs: identity, timestamp and
\* restaurant vary, the amounts reconcile
StoreJson ==
    {[restaurante |-> r, data_hora |-> dh,
      itens |-> <<[nome |-> "x", quantidade |-> 2, preco_unitario |-> 1,
                   preco_total |-> 2]>>,
      subtotal |-> 3, total |-> t] @@ oid :
        r \in {"r", LongName}, dh \in {IsoDate, BadDate}, t \in {3, 4},
        oid \in {<<>>, [order_id |-> Null], [order_id |-> "o1"], [order_id |-> "o2"]}}

\* the state after validate_extractions returned for the results xs
Validated(xs) ==
    /\ validate_extractions([i \in 1..Len(xs) |-> PyDict(xs[i])]).raised = NoRaise
    /\ extractions = [i \in 1..Len(xs) |-> PyDict(xs[i])]
    /\ validated_results = validate_extractions(extractions).value
    /\ validated_data = validated_results
    /\ raised = NoRaise
    /\ task = [t \in TaskNames |->
                 IF t = "validate_extractions" THEN "success"
                 ELSE IF t \in Downstream THEN "none" ELSE "success"]

InitStore ==
    /\ \E xs \in ExtractionLists(StoreJson) : Validated(xs)
    /\ storage = {}
    /\ InitRun /\ InitDb /\ InitMove

NextStore == StoreBegin \/ StoreRow \/ StoreCommit

SpecStore == InitStore /\ [][NextStore]_vars

----------------------------------------------------------------------------
(* store_to_database of overlapping runs, each in its own transaction *)

Ids(rows) == {x.id : x \in rows}

\* the rows the statements of run r see: the committed rows, with the rows
\* the transaction of r updated or inserted
View(r) ==
    {t \in table : t.id \notin Ids(sessions[r].upd)}
    \cup sessions[r].upd \cup sessions[r].ins

\* the order ids on which the open transaction of run r holds a lock
Locked(r) ==
    IF sessions[r].state = "open"
    THEN {x.order_id : x \in sessions[r].upd \cup sessions[r].ins}
    ELSE {}

\* a server that does not make the statement wait for the other transaction
NotBlocked(r, new) == FALSE

\* the UNIQUE index on order_id makes the INSERT ... ON CONFLICT of run r
\* wait while the open transaction of another run wrote the same order id
Blocked(r, new) ==
    /\ new.order_id.text # Null
    /\ \E o \in Runs \ {r} : new.order_id \in Locked(o)

\* the record the loop of run r is at, and the row its INSERT proposes
OverlapData(r) == sessions[r].data[sessions[r].idx]

OverlapRow(r) == NewRow(OverlapData(r), nextId, clock, sessions[r].started)

AtRow(r) ==
    /\ sessions[r].state = "open"
    /\ sessions[r].idx \in 1..Len(sessions[r].data)

Sends(r) == AtRow(r) /\ ~IsFailedRecord(OverlapData(r)) /\ ~sessions[r].aborted

\* pg_hook.get_conn(), CREATE ... IF NOT EXISTS
OverlapBegin(r) ==
    /\ sessions[r].state = "idle"
    /\ sessions' = [sessions EXCEPT ![r].state = "open", ![r].idx = 1,
                                    ![r].started = clock]
    /\ clock' = clock + 1
    /\ UNCHANGED <<runVars, task, extractions, validated_results, validated_data, raised,
                   table, tx, txAborted, storeIdx, success_count, failed_count,
                   db_result, nextId, moveVars>>

\* one iteration of the loop of run r
OverlapStore(r) ==
    /\ AtRow(r)
    /\ IF ~Sends(r)
       THEN /\ sessions' = [sessions EXCEPT ![r].idx = @ + 1]
            /\ UNCHANGED nextId
       ELSE /\ ~Blocked(r, OverlapRow(r))
            /\ LET after == Upsert(View(r), OverlapRow(r))
               IN sessions' = [sessions EXCEPT
                      ![r].idx = @ + 1,
                      ![r].ins = {x \in after : x.id \notin Ids(table)},
                      ![r].upd = {x \in after : x.id \in Ids(table) /\ x \notin table}]
            /\ nextId' = nextId + 1
    /\ UNCHANGED <<runVars, task, extractions, validated_results, validated_data, raised,
                   table, tx, txAborted, storeIdx, success_count, failed_count,
                   db_result, clock, moveVars>>

\* the statements of two runs wait for each other: the server ends the wait
\* of one with a deadlock error, its transaction is in the failed state
OverlapDeadlock(r) ==
    /\ Sends(r)
    /\ Blocked(r, OverlapRow(r))
    /\ \E o \in Runs \ {r} :
          /\ OverlapRow(r).order_id \in Locked(o)
          /\ Sends(o)
          /\ OverlapRow(o).order_id \in Locked(r)
    /\ sessions' = [sessions EXCEPT ![r].idx = @ + 1, ![r].aborted = TRUE]
    /\ UNCHANGED <<runVars, task, extractions, validated_results, validated_data, raised,
                   table, tx, txAborted, storeIdx, success_count, failed_count,
                   db_result, clock, nextId, moveVars>>

\* conn.commit() of run r: a failed transaction is rolled back
OverlapCommit(r) ==
    /\ sessions[r].state = "open"
    /\ sessions[r].idx = Len(sessions[r].data) + 1
    /\ table' = IF sessions[r].aborted THEN table ELSE View(r)
    /\ sessions' = [sessions EXCEPT ![r].state = "done", ![r].ended = clock,
                                    ![r].ins = {}, ![r].upd = {}]
    /\ clock' = clock + 1
    /\ UNCHANGED <<runVars, task, extractions, validated_results, validated_data, raised,
                   tx, txAborted, storeIdx, success_count, failed_count,
                   db_result, nextId, moveVars>>

\* the JSON objects of the overlapping runs: the order id varies
OverlapJson ==
    {j \in StoreJson : j.restaurante = "r" /\ j.data_hora = IsoDate /\ j.total = 3
                       /\ "order_id" \in DOMAIN j}

\* the lists validate_extractions returns for the results of one run
OverlapLists ==
    {validate_extractions([i \in 1..Len(xs) |-> PyDict(xs[i])]).value :
        xs \in {ys \in ExtractionLists(OverlapJson) :
                  \A i \in 1..Len(ys) : ~IsFailedRecord(ys[i])}}

\* two runs that hold validated records of the same files
InitOverlap ==
    /\ \E d \in [Runs -> OverlapLists] :
          /\ \A r, o \in Runs : Len(d[r]) = Len(d[o])
          /\ sessions = [r \in Runs |-> Idle(d[r])]
    /\ table = {}
    /\ tx = [rows |-> {}, started |-> 0]
    /\ txAborted = FALSE
    /\ storeIdx = 0
    /\ success_count = 0
    /\ failed_count = 0
    /\ db_result = <<>>
    /\ clock = 0
    /\ nextId = 1
    /\ storage = {}
    /\ InitRun /\ InitMove
    /\ task = [t \in TaskNames |->
                 IF t = "store_to_database" THEN "running"
                 ELSE IF t \in Downstream \ {"validate_extractions"} THEN "none"
                 ELSE "success"]
    /\ extractions = <<>>
    /\ validated_results = <<>>
    /\ validated_data = <<>>
    /\ raised = NoRaise

NextOverlap ==
    \E r \in Runs :
        \/ OverlapBegin(r)
        \/ OverlapStore(r)
        \/ OverlapDeadlock(r)
        \/ OverlapCommit(r)

SpecOverlap == InitOverlap /\ [][NextOverlap]_vars

----------------------------------------------------------------------------
(* move_processed_files *)

\* file_key.replace("incoming/", prefix)
Replace(file_key, prefix) ==
    IF file_key.prefix = "incoming/" THEN [file_key EXCEPT !.prefix = prefix]
    ELSE file_key

\* the routing with the validation flag looked at before the status
RouteByFlag(data) ==
    IF ~Get(data, "validation_passed", FALSE) THEN "review"
    ELSE IF Get(data, "status", Null) = "failed" THEN "failed"
    ELSE "success"

\* the list the iteration appends file_key to
Route(data) ==
    IF Get(data, "status", Null) = "failed" THEN "failed"
    ELSE IF ~Get(data, "validation_passed", TRUE) THEN "review"
    ELSE "success"

RoutePrefix(route) ==
    CASE route = "failed" -> "failed/"
      [] route = "review" -> "review/"
      [] OTHER -> "processed/"

NewKey(data) == Replace(data.file_key, RoutePrefix(Route(data)))

MoveBegin ==
    /\ task["validate_extractions"] = "success"
    /\ task["move_processed_files"] = "none"
    /\ moveIdx' = 1
    /\ movePhase' = "copy"
    /\ task' = [task EXCEPT !["move_processed_files"] = "running"]
    /\ UNCHANGED <<runVars, extractions, validated_results, validated_data, raised,
                   dbVars, storage, moved, moveFaults>>

\* the iteration with remove_object called even when copy_object raised
MoveCopyThenRemove ==
    /\ task["move_processed_files"] = "running"
    /\ moveIdx \in 1..Len(validated_data)
    /\ movePhase = "copy"
    /\ LET data == validated_data[moveIdx]
       IN IF "file_key" \notin DOMAIN data
          THEN /\ moveIdx' = moveIdx + 1
               /\ UNCHANGED <<storage, movePhase, moved, moveFaults>>
          ELSE /\ moved' = [moved EXCEPT ![Route(data)] = Append(@, data.file_key)]
               /\ movePhase' = "remove"
               /\ \/ /\ data.file_key \in storage
                     /\ storage' = storage \cup {NewKey(data)}
                     /\ UNCHANGED <<moveIdx, moveFaults>>
                  \/ /\ moveFaults' = moveFaults \cup {data.file_key}
                     /\ UNCHANGED <<storage, moveIdx>>
    /\ UNCHANGED <<runVars, task, extractions, validated_results, validated_data, raised,
                   dbVars>>

\* the iteration with the try around the loop: a copy that raises ends the loop
MoveCopyStopping ==
    /\ task["move_processed_files"] = "running"
    /\ moveIdx \in 1..Len(validated_data)
    /\ movePhase = "copy"
    /\ LET data == validated_data[moveIdx]
       IN IF "file_key" \notin DOMAIN data
          THEN /\ moveIdx' = moveIdx + 1
               /\ UNCHANGED <<storage, movePhase, moved, moveFaults>>
          ELSE /\ moved' = [moved EXCEPT ![Route(data)] = Append(@, data.file_key)]
               /\ \/ /\ data.file_key \in storage
                     /\ storage' = storage \cup {NewKey(data)}
                     /\ movePhase' = "remove"
                     /\ UNCHANGED <<moveIdx, moveFaults>>
                  \/ /\ moveFaults' = moveFaults \cup {data.file_key}
                     /\ moveIdx' = Len(validated_data) + 1
                     /\ UNCHANGED <<storage, movePhase>>
    /\ UNCHANGED <<runVars, task, extractions, validated_results, validated_data, raised,
                   dbVars>>

\* the iteration that counts a record once its copy was made
MoveCopyCountingDone ==
    /\ task["move_processed_files"] = "running"
    /\ moveIdx \in 1..Len(validated_data)
    /\ movePhase = "copy"
    /\ LET data == validated_data[moveIdx]
       IN IF "file_key" \notin DOMAIN data
          THEN /\ moveIdx' = moveIdx + 1
               /\ UNCHANGED <<storage, movePhase, moved, moveFaults>>
          ELSE \/ /\ data.file_key \in storage
                  /\ moved' = [moved EXCEPT ![Route(data)] = Append(@, data.file_key)]
                  /\ storage' = storage \cup {NewKey(data)}
                  /\ movePhase' = "remove"
                  /\ UNCHANGED <<moveIdx, moveFaults>>
               \/ /\ moveFaults' = moveFaults \cup {data.file_key}
                  /\ moveIdx' = moveIdx + 1
                  /\ UNCHANGED <<storage, movePhase, moved>>
    /\ UNCHANGED <<runVars, task, extractions, validated_results, validated_data, raised,
                   dbVars>>

\* the routing decision and client.copy_object of one iteration
MoveCopy ==
    /\ task["move_processed_files"] = "running"
    /\ moveIdx \in 1..Len(validated_data)
    /\ movePhase = "copy"
    /\ LET data == validated_data[moveIdx]
       IN IF "file_key" \notin DOMAIN data
          THEN /\ moveIdx' = moveIdx + 1
               /\ UNCHANGED <<storage, movePhase, moved, moveFaults>>
          ELSE /\ moved' = [moved EXCEPT ![Route(data)] = Append(@, data.file_key)]
               /\ \/ /\ data.file_key \in storage
                     /\ storage' = storage \cup {NewKey(data)}
                     /\ movePhase' = "remove"
                     /\ UNCHANGED <<moveIdx, moveFaults>>
                  \/ /\ moveFaults' = moveFaults \cup {data.file_key}    \* copy raised
                     /\ moveIdx' = moveIdx + 1
                     /\ UNCHANGED <<storage, movePhase>>
    /\ UNCHANGED <<runVars, task, extractions, validated_results, validated_data, raised,
                   dbVars>>

\* client.remove_object of one iteration
MoveRemove ==
    /\ task["move_processed_files"] = "running"
    /\ moveIdx \in 1..Len(validated_data)
    /\ movePhase = "remove"
    /\ \/ /\ storage' = storage \ {validated_data[moveIdx].file_key}
          /\ UNCHANGED moveFaults
       \/ /\ moveFaults' = moveFaults \cup {validated_data[moveIdx].file_key}  \* raised
          /\ UNCHANGED storage
    /\ moveIdx' = moveIdx + 1
    /\ movePhase' = "copy"
    /\ UNCHANGED <<runVars, task, extractions, validated_results, validated_data, raised,
                   dbVars, moved>>

MoveReturn ==
    /\ task["move_processed_files"] = "running"
    /\ moveIdx = Len(validated_data) + 1
    /\ task' = [task EXCEPT !["move_processed_files"] = "success"]
    /\ UNCHANGED <<runVars, extractions, validated_results, validated_data, raised,
                   dbVars, moveVars>>

\* generate_summary(validated_data, db_result, move_result)
GenerateSummary ==
    /\ task["store_to_database"] = "success"
    /\ task["move_processed_files"] = "success"
    /\ task["generate_summary"] = "none"
    /\ task' = [task EXCEPT !["generate_summary"] = "success"]
    /\ UNCHANGED <<runVars, extractions, validated_results, validated_data, raised,
                   dbVars, moveVars>>

----------------------------------------------------------------------------
(* The tasks downstream of validate_extractions, as the scheduler runs them *)
(* once validate_extractions has returned validated_data                    *)

StageJson ==
    {j \in StoreJson : j.restaurante = "r" /\ j.total = 4 /\ "order_id" \in DOMAIN j
                       /\ j.order_id = "o1"}
    \cup {j \in InvoiceJson :
            /\ j.itens = <<[nome |-> "x", quantidade |-> 1, preco_unitario |-> 1,
                            preco_total |-> 4]>>
            /\ j.subtotal = 4 /\ j.total = 4 /\ "taxa_entrega" \notin DOMAIN j}

InitStages ==
    /\ \E xs \in ExtractionLists(StageJson) :
          /\ Validated(xs)
          /\ pending_keys = [i \in 1..Len(xs) |-> xs[i].file_key]
          /\ storage = {xs[i].file_key : i \in 1..Len(xs)}
    /\ batch_size \in 1..MaxBatchSize
    /\ batches = create_batches(pending_keys, batch_size)
    /\ batch_texts = [b \in 1..Len(batches) |-> <<>>]
    /\ extracted_batches = [b \in 1..Len(batches) |-> <<>>]
    /\ mapped = [extract_batch_texts |-> [b \in 1..Len(batches) |-> "success"],
                 process_batch_with_llm |-> [b \in 1..Len(batches) |-> "success"]]
    /\ InitLlm
    /\ InitDb /\ InitMove

NextStages ==
    \/ StoreBegin
    \/ StoreRow
    \/ StoreCommit
    \/ MoveBegin
    \/ MoveCopy
    \/ MoveRemove
    \/ MoveReturn
    \/ GenerateSummary

SpecStages == InitStages /\ [][NextStages]_vars

----------------------------------------------------------------------------
(* The documents of one batch from the provider calls to the move: the task
   instance of the batch, validate_extractions called on the list it
   returned, move_processed_files on the validated list *)

\* validate_extractions is given the list of results of the batch
ValidateBatch ==
    /\ AllBatchesExtracted
    /\ task["validate_extractions"] = "none"
    /\ extractions' = [i \in 1..Len(extracted_batches[1]) |->
                          PyDict(extracted_batches[1][i])]
    /\ task' = [task EXCEPT !["validate_extractions"] = "running"]
    /\ UNCHANGED <<runVars, validated_results, validated_data, raised, dbVars, moveVars>>

\* the run after extract_batch_texts, its documents in one batch
InitRecord ==
    /\ \E n \in 1..MaxDocs : storage = {Key(i) : i \in 1..n}
    /\ batch_size = Cardinality(storage)
    /\ pending_keys = KeySeq(storage)
    /\ batches = create_batches(pending_keys, batch_size)
    /\ batch_texts \in {<<t>> : t \in BatchTexts(batches[1])}
    /\ extracted_batches = <<<<>>>>
    /\ mapped = [extract_batch_texts |-> <<"success">>,
                 process_batch_with_llm |-> <<"none">>]
    /\ env = DefaultEnv
    /\ selected = <<NotSelected>>
    /\ llm_calls = <<>>
    /\ llm_response = NoResponse
    /\ loops = <<>>
    /\ task = [t \in TaskNames |->
                 IF t \in {"list_pending_invoices", "create_batches"}
                 THEN "success" ELSE "none"]
    /\ extractions = <<>>
    /\ validated_results = <<>>
    /\ validated_data = <<>>
    /\ raised = NoRaise
    /\ InitDb /\ InitMove

NextRecord ==
    \/ ProcessBatchWithLLM(1)
    \/ ValidateBatch
    \/ ValidateExtractions
    \/ MoveBegin
    \/ MoveCopy
    \/ MoveRemove
    \/ MoveReturn

SpecRecord == InitRecord /\ [][NextRecord]_vars

----------------------------------------------------------------------------
(* Properties of the validator *)

ValidateEnded == task["validate_extractions"] \in {"success", "failed"}

IsFailed(e) == Get(e, "status", Null) = "failed"

\* |total - (subtotal + delivery fee + service fee + tip)| > 0.01
TotalOff(e) ==
    Abs(e.total - (e.subtotal + Get(e, "taxa_entrega", 0) + Get(e, "taxa_servico", 0)
                   + Get(e, "gorjeta", 0))) > Tolerance

\* |subtotal - sum of the line totals| > 0.01
SubtotalOff(e) ==
    Abs(e.subtotal - SeqSum([k \in 1..Len(e.itens) |-> e.itens[k].preco_total]))
        > Tolerance

\* some item has |line total - quantity * unit price| > 0.01
ItemOff(e) ==
    \E k \in 1..Len(e.itens) :
        Abs(e.itens[k].preco_total - e.itens[k].quantidade * e.itens[k].preco_unitario)
            > Tolerance

\* C5: for any list of extraction results the validator returns, without
\* aborting, one record per input record in the same order: a failed record
\* unchanged, every other record with status success when all checks pass and
\* needs_review otherwise.
C5_ValidatorNeverAborts ==
    ValidateEnded =>
        /\ task["validate_extractions"] = "success"
        /\ raised = NoRaise
        /\ Len(validated_data) = Len(extractions)
        /\ \A i \in 1..Len(extractions) :
              LET e == extractions[i].val
              IN IF IsFailed(e) THEN validated_data[i] = e
                 ELSE /\ validated_data[i].file_key = e.file_key
                      /\ validated_data[i].status =
                            IF Len(e.itens) >= 1 /\ ~ItemOff(e) /\ ~TotalOff(e)
                               /\ ~SubtotalOff(e)
                            THEN "success" ELSE "needs_review"

\* C6: a non-failed, structurally valid extraction whose total or subtotal is
\* off by more than 0.01 gets status needs_review with validation_passed
\* false; when both are within 0.01 and every other check passes it gets
\* status success.
C6_MonetaryMismatchNeedsReview ==
    ValidateEnded =>
        \A i \in 1..Len(extractions) :
            LET e == extractions[i].val
            IN (~IsFailed(e) /\ FieldErrors(e) = <<>>) =>
                  IF TotalOff(e) \/ SubtotalOff(e)
                  THEN /\ raised = NoRaise
                       /\ validated_data[i].status = "needs_review"
                       /\ validated_data[i].validation_passed = FALSE
                  ELSE raised = NoRaise => validated_data[i].status = "success"

----------------------------------------------------------------------------
(* Properties of the persistence stage *)

\* a row of the table stands for the validated record d
RowFor(r, d) ==
    \/ r.file_key = d.file_key
    \/ "order_id" \in DOMAIN d /\ d.order_id # Null /\ r.order_id.text = d.order_id

Persisted(d) == \E r \in table : RowFor(r, d)

StoreReturned == Len(db_result) >= 1 /\ task["store_to_database"] = "success"

\* C2: once persistence has run, every document whose status is success or
\* needs_review has a row in the store, and only the failed ones have none.
C2_NonFailedHaveRow ==
    StoreReturned =>
        \A i \in 1..Len(validated_data) :
            (validated_data[i].status \in {"success", "needs_review"})
                <=> Persisted(validated_data[i])

\* the columns other than raw_data and updated_at
Business(r) == [r EXCEPT !.raw_data = Null, !.updated_at = 0]

UniqueOrderId(rows) ==
    \A r1, r2 \in rows :
        (r1.order_id = r2.order_id /\ r1.order_id.text # Null) => r1 = r2

\* every row of old is in new with the business columns of its first write
KeepsFirstWrite(old, new) ==
    \A r \in old : \E r2 \in new : Business(r2) = Business(r)

\* C8: the store holds at most one row per order id, committed or inside a
\* transaction, and persisting a record whose order id already has a row
\* changes only raw_data and updated_at of that row: every other column keeps
\* the value of the first write.
C8_OneRowPerOrderId ==
    /\ [](UniqueOrderId(table) /\ UniqueOrderId(tx.rows))
    /\ [][/\ KeepsFirstWrite(table, table')
          /\ tx'.started = tx.started => KeepsFirstWrite(tx.rows, tx'.rows)]_vars

\* a committed row was written for one file and refreshed by the record of
\* another file with the same order id and another total
C8_Witness ==
    \E r \in table :
        /\ r.raw_data.json.file_key # r.file_key
        /\ r.raw_data.json.total # r.total
        /\ r.order_id.text = r.raw_data.json.order_id

\* C9: executing the persistence stage again on the same validated records
\* leaves the number of rows as it was after the first execution.
C9_ReexecutionKeepsRows ==
    [][Len(db_result) >= 1 => Cardinality(table') = Cardinality(table)]_vars

\* the record's own INSERT is accepted when it is the only statement
WriteAccepted(d) ==
    /\ ~("data_hora" \in DOMAIN d /\ ~FromIsoFormatOk(d.data_hora))
    /\ ~DbRejects(d)

\* C10: after a persistence invocation, every non-failed record whose own
\* write does not fail has a committed row, and the failed writes are counted.
C10_RowFailureIsIsolated ==
    StoreReturned =>
        /\ \A i \in 1..Len(validated_data) :
              (~IsFailed(validated_data[i]) /\ WriteAccepted(validated_data[i]))
                  => Persisted(validated_data[i])
        /\ db_result[1].failed_count =
              Cardinality({i \in 1..Len(validated_data) :
                              IsFailed(validated_data[i])
                              \/ ~WriteAccepted(validated_data[i])})

----------------------------------------------------------------------------
(* Properties of a run *)

Destinations(key) ==
    {[key EXCEPT !.prefix = p] : p \in {"processed/", "review/", "failed/"}}

\* C1: when the run has finished and no copy or delete failed, every file of
\* the pending list is under exactly one of processed/, review/, failed/ and
\* no longer under incoming/.
C1_EveryPendingFileFiled ==
    (RunFinished /\ moveFaults = {}) =>
        \A i \in 1..Len(pending_keys) :
            /\ pending_keys[i] \notin storage
            /\ Cardinality(Destinations(pending_keys[i]) \cap storage) = 1

\* C3: validate_extractions starts only after every batch was extracted, and
\* the sequence it iterates over holds one per-document result for every
\* pending file, in order: the batch results flattened.
C3_ValidateOverFlattenedResults ==
    task["validate_extractions"] \in {"running", "success", "failed"} =>
        /\ AllBatchesExtracted
        /\ Len(extractions) = Len(pending_keys)
        /\ \A i \in 1..Len(extractions) :
              /\ extractions[i].type = "dict"
              /\ extractions[i].val.file_key = pending_keys[i]

\* C4: the move stage copies or deletes no file before the persistence stage
\* of the run has completed.
C4_MoveAfterPersist ==
    storage # {pending_keys[i] : i \in 1..Len(pending_keys)}
        => task["store_to_database"] = "success"

----------------------------------------------------------------------------
(* Properties of the extraction stages *)

\* the documents of batch b whose bytes gave no text
UnreadableIn(b) == {i \in 1..Len(batch_texts[b]) : Unreadable(batch_texts[b][i])}

CalledFor(key) == {c \in 1..Len(llm_calls) : llm_calls[c].file_key = key}

\* what process_batch_with_llm returned for an unreadable document: status
\* failed, and no provider call was made for it
UnreadableFailsUncalled ==
    \A b \in 1..Len(batches) :
        mapped.process_batch_with_llm[b] = "success" =>
            \A i \in UnreadableIn(b) :
                /\ extracted_batches[b][i].file_key = batches[b][i]
                /\ extracted_batches[b][i].status = "failed"
                /\ CalledFor(batches[b][i]) = {}

\* C11: a document whose bytes give no text (read or parse error, or empty
\* text) gets status failed without a provider call, and when the run is
\* over it has no row and its file is under failed/, no longer under incoming/
C11_UnreadableDocumentFiledAsFailed ==
    /\ UnreadableFailsUncalled
    /\ RunFinished =>
          \A b \in 1..Len(batches) : \A i \in UnreadableIn(b) :
              /\ ~\E r \in table : r.file_key = batches[b][i]
              /\ Replace(batches[b][i], "failed/") \in storage
              /\ batches[b][i] \notin storage

\* the batches whose process_batch_with_llm instance returned
Processed == {b \in 1..Len(batches) : mapped.process_batch_with_llm[b] = "success"}

\* the result is the failure record the extraction stage writes for a document
MarkedFailed(r) == IsFailed(r) /\ "error" \in DOMAIN r /\ "provider" \notin DOMAIN r

\* C12: when a provider was selected, process_batch_with_llm returns one
\* result per document of the batch, in batch order and with the document's
\* file key; every document that has text is submitted exactly once, in
\* batch order, whatever happened to the documents before it, and it is
\* marked failed exactly when its own call raised or its own answer did not
\* parse
C12_OneResultPerDocument ==
    \A b \in Processed :
        selected[b].ok =>
            /\ Len(extracted_batches[b]) = Len(batches[b])
            /\ \A i \in 1..Len(batches[b]) :
                  /\ extracted_batches[b][i].file_key = batches[b][i]
                  /\ ~Unreadable(batch_texts[b][i]) =>
                        /\ Cardinality(CalledFor(batches[b][i])) = 1
                        /\ \A c \in CalledFor(batches[b][i]) :
                              /\ llm_calls[c].batch = b
                              /\ MarkedFailed(extracted_batches[b][i])
                                    <=> llm_calls[c].answered # "content"
                              /\ \A j \in 1..(i - 1) : \A d \in CalledFor(batches[b][j]) :
                                    d < c

\* a batch of two documents with text: the call for the first failed, the
\* second was submitted all the same and gave an invoice
C12_Witness ==
    \E b \in Processed :
        /\ selected[b].ok
        /\ Len(batches[b]) = 2
        /\ IsFailed(extracted_batches[b][1])
        /\ ~IsFailed(extracted_batches[b][2])
        /\ \E c, d \in 1..Len(llm_calls) :
              /\ c < d
              /\ llm_calls[c].file_key = batches[b][1]
              /\ llm_calls[c].answered \in {"raise", "malformed"}
              /\ llm_calls[d].file_key = batches[b][2]
              /\ llm_calls[d].answered = "content"

\* C13: when no provider could be selected for a batch, no call is made for
\* the batch and the result holds, per document and in order, the file key,
\* status failed and the selection error
C13_NoProviderFailsBatch ==
    \A b \in Processed :
        ~selected[b].ok =>
            /\ ~\E c \in 1..Len(llm_calls) : llm_calls[c].batch = b
            /\ extracted_batches[b] =
                  [i \in 1..Len(batches[b]) |->
                      [file_key |-> batches[b][i], status |-> "failed",
                       error |-> selected[b].error]]

\* selection failed for a batch that holds a document with text
C13_Witness ==
    \E b \in Processed :
        /\ ~selected[b].ok
        /\ \E i \in 1..Len(batches[b]) :
              /\ ~Unreadable(batch_texts[b][i])
              /\ IsFailed(extracted_batches[b][i])

----------------------------------------------------------------------------
(* Properties of the provider selection *)

\* the constructor of the vendor named succeeds
Constructs(name, e) == Lower(name) \in Vendors /\ Lower(name) \in e.credentials

\* the primary, then the fallback order with the primary removed
CandidateOrder(e) ==
    <<e.LLM_PRIMARY_PROVIDER>> \o
    SelectSeq([i \in 1..Len(e.LLM_FALLBACK_ORDER) |-> Strip(e.LLM_FALLBACK_ORDER[i])],
              LAMBDA p : p # e.LLM_PRIMARY_PROVIDER)

FallbackEnabled(e) == e.LLM_ENABLE_FALLBACK \in {"true", "True"}

SelectionDone == Len(selected) = 1 /\ selected[1] # NotSelected

\* C14: with fallback enabled, the provider returned is the first candidate,
\* in the order primary then fallback order without the primary, whose
\* construction succeeds; selection raises exactly when no candidate constructs
C14_FirstConstructibleCandidate ==
    (SelectionDone /\ FallbackEnabled(env)) =>
        LET order == CandidateOrder(env)
            good == {k \in 1..Len(order) : Constructs(order[k], env)}
        IN IF good = {}
           THEN ~selected[1].ok
           ELSE /\ selected[1].ok
                /\ \E k \in good :
                      /\ \A j \in good : k <= j
                      /\ selected[1].provider_name = Lower(order[k])

\* fallback order [B, C], the primary and B fail to construct: C is returned
C14_Witness ==
    /\ SelectionDone
    /\ FallbackEnabled(env)
    /\ Len(env.LLM_FALLBACK_ORDER) = 2
    /\ ~Constructs(env.LLM_PRIMARY_PROVIDER, env)
    /\ ~Constructs(env.LLM_FALLBACK_ORDER[1], env)
    /\ env.LLM_FALLBACK_ORDER[2] # env.LLM_PRIMARY_PROVIDER
    /\ selected[1].ok
    /\ selected[1].provider_name = env.LLM_FALLBACK_ORDER[2]

\* every call of a batch goes to the provider its task instance selected,
\* whatever the answers to the calls before it
CallsGoToBatchSelection ==
    \A c \in 1..Len(llm_calls) :
        /\ llm_calls[c].batch \in Processed
        /\ selected[llm_calls[c].batch].ok
        /\ llm_calls[c].provider = selected[llm_calls[c].batch].provider_name

\* C15: one selection serves the whole run: the task instances of all the
\* batches hold the same selection result, and every provider call of the
\* run goes to that one provider
C15_SingleActiveProvider ==
    /\ CallsGoToBatchSelection
    /\ \A b, c \in Processed : selected[b] = selected[c]
    /\ \A c, d \in 1..Len(llm_calls) : llm_calls[c].provider = llm_calls[d].provider

----------------------------------------------------------------------------
(* Properties of the move stage *)

\* the destination prefix the record's status stands for
StatusPrefix(status) ==
    CASE status = "failed" -> "failed/"
      [] status = "needs_review" -> "review/"
      [] status = "success" -> "processed/"

StatusList(status) ==
    CASE status = "failed" -> "failed"
      [] status = "needs_review" -> "review"
      [] status = "success" -> "success"

Elems(seq) == {seq[i] : i \in 1..Len(seq)}

\* the records move_processed_files has taken its routing decision for
Routed ==
    {i \in 1..Len(validated_data) :
        i < moveIdx \/ (i = moveIdx /\ movePhase = "remove")}

MoveReturned == task["move_processed_files"] = "success"

\* C16: the destination of every record the validator returned is the one of
\* its status: failed/ for failed, review/ for needs_review, processed/ for
\* success; the record is counted in the list of that destination only, and
\* every object outside incoming/ is the copy of a record at that destination
C16_DestinationFollowsStatus ==
    /\ \A i \in 1..Len(validated_data) :
          LET data == validated_data[i]
          IN /\ data.status \in {"failed", "needs_review", "success"}
             /\ NewKey(data) = [data.file_key EXCEPT !.prefix = StatusPrefix(data.status)]
             /\ i \in Routed =>
                   \A l \in {"failed", "review", "success"} :
                       data.file_key \in Elems(moved[l]) <=> l = StatusList(data.status)
    /\ \A k \in storage :
          k.prefix # "incoming/" =>
              \E i \in Routed :
                  k = [validated_data[i].file_key EXCEPT
                          !.prefix = StatusPrefix(validated_data[i].status)]

\* the move returned with the file of a failed record under failed/ and the
\* file of a needs_review record under review/
C16_Witness ==
    /\ MoveReturned
    /\ \E k \in storage : k.prefix = "failed/"
    /\ \E k \in storage : k.prefix = "review/"

\* no document of the run is lost
NeverLost ==
    \A i \in 1..Len(validated_data) :
        validated_data[i].file_key \in storage \/ NewKey(validated_data[i]) \in storage

\* an object is deleted only from incoming/ and only once its copy exists
DeleteAfterCopy ==
    \A k \in storage \ storage' :
        /\ k.prefix = "incoming/"
        /\ \E i \in 1..Len(validated_data) :
              /\ validated_data[i].file_key = k
              /\ NewKey(validated_data[i]) \in storage

\* a call that raises changes no object
FaultKeepsStorage == moveFaults' # moveFaults => storage' = storage

\* C17: a move is copy then delete, and the delete is attempted only after
\* the copy succeeded: under any pattern of copy and delete failures every
\* document is under incoming/ or under its destination, and a delete that
\* fails after the copy succeeded leaves the source in place
C17_CopyThenDelete ==
    /\ []NeverLost
    /\ [][DeleteAfterCopy /\ FaultKeepsStorage]_vars

\* the copy of a file succeeded and its delete failed: the file is under
\* incoming/ and under its destination
C17_Witness ==
    \E i \in 1..Len(validated_data) :
        /\ i < moveIdx
        /\ validated_data[i].file_key \in moveFaults
        /\ validated_data[i].file_key \in storage
        /\ NewKey(validated_data[i]) \in storage

\* C18: a copy or delete that fails for one file does not stop the stage:
\* when move_processed_files returns, the move of every record was attempted
\* (its copy was made or its call raised), the records after a failed one
\* included
C18_MoveFailureIsIsolated ==
    MoveReturned =>
        \A i \in 1..Len(validated_data) :
            /\ i \in Routed
            /\ \E l \in {"failed", "review", "success"} :
                  validated_data[i].file_key \in Elems(moved[l])
            /\ \/ NewKey(validated_data[i]) \in storage
               \/ validated_data[i].file_key \in moveFaults

\* the copy of the first file raised, the second file was moved all the same
C18_Witness ==
    /\ MoveReturned
    /\ Len(validated_data) = 2
    /\ validated_data[1].file_key \in moveFaults
    /\ validated_data[1].file_key \in storage
    /\ NewKey(validated_data[1]) \notin storage
    /\ validated_data[2].file_key \notin storage
    /\ NewKey(validated_data[2]) \in storage

----------------------------------------------------------------------------
(* Properties of the batcher *)

Batched == task["create_batches"] = "success"

Sizes(groups) == [b \in 1..Len(groups) |-> Len(groups[b])]

\* C19: for a batch size of at least 1 the groups, put end to end, are the
\* file list in its order; every group but the last has batch_size elements,
\* the last has between 1 and batch_size; no file gives no group; 10 files
\* by 5 give sizes [5,5], 7 files give [5,2]
C19_BatchesPartitionInOrder ==
    Batched =>
        /\ Concat(batches) = pending_keys
        /\ \A b \in 1..(Len(batches) - 1) : Len(batches[b]) = batch_size
        /\ Len(batches) > 0 => Len(batches[Len(batches)]) \in 1..batch_size
        /\ pending_keys = <<>> => batches = <<>>
        /\ (Len(pending_keys) = 10 /\ batch_size = 5) => Sizes(batches) = <<5, 5>>
        /\ (Len(pending_keys) = 7 /\ batch_size = 5) => Sizes(batches) = <<5, 2>>

\* 7 files in reversed name order batched by 5: a full group and a short one
C19_Witness ==
    /\ Batched
    /\ Len(pending_keys) = 7
    /\ pending_keys[1] = Key(7)
    /\ batch_size = 5
    /\ Sizes(batches) = <<5, 2>>

----------------------------------------------------------------------------
(* Properties of overlapping runs *)

\* C20: under any interleaving of the statements and commits of two runs
\* that persist records of the same files, the committed rows, and the rows
\* each open transaction sees, never hold two rows with the same order id
C20_UniqueOrderIdUnderOverlap ==
    /\ UniqueOrderId(table)
    /\ \A r \in Runs : UniqueOrderId(View(r))

\* two runs whose transactions overlapped both committed a record with the
\* same order id: the store holds one row for it, written by one run and
\* refreshed by the other
C20_Witness ==
    /\ \A r \in Runs : sessions[r].state = "done" /\ ~sessions[r].aborted
    /\ sessions[1].started < sessions[2].ended
    /\ sessions[2].started < sessions[1].ended
    /\ \E t \in table :
          /\ t.order_id.text = "o1"
          /\ t.updated_at # t.created_at
          /\ \A r \in Runs : \E i \in 1..Len(sessions[r].data) :
                Get(sessions[r].data[i], "order_id", Null) = "o1"

----------------------------------------------------------------------------
(* Properties of the cost of a call *)

\* the rates the claim's example is priced at: 0.15 and 0.60 dollar per
\* million tokens
ExampleRates == [input |-> 15, output |-> 60]

ExampleCall ==
    /\ llm_response.answered
    /\ llm_response.usage = [input_tokens |-> 1000, output_tokens |-> 500]
    /\ _get_pricing(llm_response.response.provider, llm_response.response.model)
          = ExampleRates

\* C21: the cost recorded on the response of a call is (inputTokens x
\* inputRate + outputTokens x outputRate) / 1,000,000 at the rates the
\* pricing table of the provider has for its model; 1,000 input and 500
\* output tokens at the rates 0.15 and 0.60 cost 0.00045
C21_CostFollowsPricingTable ==
    /\ llm_response.answered =>
          LET usage == llm_response.usage
              response == llm_response.response
              pricing == _get_pricing(response.provider, response.model)
          IN response.cost = usage.input_tokens * pricing.input
                             + usage.output_tokens * pricing.output
    /\ ExampleCall => llm_response.response.cost = 45000

\* the example call was made by a provider whose model is in no pricing table
C21_Witness ==
    /\ ExampleCall
    /\ llm_response.response.model \notin PricedModels(llm_response.response.provider)
    /\ llm_response.response.cost = 45000

----------------------------------------------------------------------------
(* Properties of the calls of a batch *)

\* the calls of batch b that were issued and have neither returned nor raised
InFlight(b) ==
    {c \in 1..Len(llm_calls) : llm_calls[c].batch = b /\ llm_calls[c].answered = "pending"}

\* the position in batch b of the document of call c
DocumentOf(b, c) ==
    CHOOSE i \in 1..Len(batches[b]) : batches[b][i] = llm_calls[c].file_key

----------------------------------------------------------------------------
(* Properties of the validation messages *)

\* the monetary checks a record violates, where its amounts are there to compare
TotalViolated(d) ==
    /\ {"total", "subtotal"} \subseteq DOMAIN d
    /\ Abs(d.total - (d.subtotal + Get(d, "taxa_entrega", 0)
                      + Get(d, "taxa_servico", 0) + Get(d, "gorjeta", 0))) > Tolerance

SubtotalViolated(d) ==
    /\ {"subtotal", "itens"} \subseteq DOMAIN d
    /\ \A i \in 1..Len(d.itens) : "preco_total" \in DOMAIN d.itens[i]
    /\ Abs(d.subtotal - SeqSum([i \in 1..Len(d.itens) |-> d.itens[i].preco_total]))
          > Tolerance

HasMessage(r, text) ==
    \E m \in 1..Len(r.validation_errors) : r.validation_errors[m][2] = text

\* C23: every record with status needs_review carries a non-empty list of
\* validation messages that has a message for each violated check: one for
\* the total invariant and one for the subtotal invariant when they are
\* violated, next to the messages of the structural checks
C23_MessageForEachViolatedCheck ==
    \A i \in 1..Len(validated_results) :
        LET r == validated_results[i]
        IN r.status = "needs_review" =>
              /\ "validation_errors" \in DOMAIN r
              /\ r.validation_errors # <<>>
              /\ TotalViolated(r) => HasMessage(r, "Value error, Invoice total mismatch")
              /\ SubtotalViolated(r) => HasMessage(r, "Value error, Subtotal mismatch")

----------------------------------------------------------------------------
(* Properties of a record across the stages *)

\* the keys validate_extractions may set on a record
ValidatorKeys == {"status", "validation_passed", "validation_errors"}

\* r is the extraction x with nothing but the validator's keys changed
SameButVerdict(x, r) ==
    /\ DOMAIN x \ ValidatorKeys = DOMAIN r \ ValidatorKeys
    /\ \A k \in DOMAIN x \ ValidatorKeys : r[k] = x[k]

ValidatorKeepsRecords ==
    /\ Len(validated_data) = Len(extractions)
    /\ \A i \in 1..Len(validated_data) :
          /\ IsFailed(extractions[i].val) => validated_data[i] = extractions[i].val
          /\ SameButVerdict(extractions[i].val, validated_data[i])
          /\ validated_data[i].status \in {"success", "needs_review", "failed"}

StagesKeepRecords ==
    /\ validated_data' = validated_data
    /\ validated_results' = validated_results
    /\ extractions' = extractions

\* C24: a record marked failed by the extraction stage is failed at every
\* later stage; the validator changes the status, the validation-passed flag
\* and the validation messages of a record and nothing else of it; the
\* persistence, move and summary stages do not modify any record
C24_RecordsOnlyGainAVerdict ==
    []ValidatorKeepsRecords /\ [][StagesKeepRecords]_vars

\* the run ended with a failed record and a record left for review among
\* the records the three stages were given
C24_Witness ==
    /\ task["generate_summary"] = "success"
    /\ \E i, j \in 1..Len(validated_data) :
          /\ IsFailed(extractions[i].val) /\ validated_data[i].status = "failed"
          /\ ~IsFailed(extractions[j].val)
          /\ validated_data[j].status = "needs_review"
          /\ validated_data[j].order_id = extractions[j].val.order_id

----------------------------------------------------------------------------
(* Properties of the results of one batch *)

\* document i of the batch got an answer that parsed to a JSON object
Answered(i) ==
    \E c \in 1..Len(llm_calls) :
        /\ llm_calls[c].file_key = batches[1][i]
        /\ llm_calls[c].answered = "content"

\* the extraction of document i of the batch failed: no provider was
\* selected, the document had an extraction error or no text, its call
\* raised, or the content of the answer did not parse
ExtractionFailed(i) ==
    \/ ~selected[1].ok
    \/ Unreadable(batch_texts[1][i])
    \/ \E c \in 1..Len(llm_calls) :
          /\ llm_calls[c].file_key = batches[1][i]
          /\ llm_calls[c].answered \in {"raise", "malformed"}

\* C25: a document is failed after validation only if its extraction failed;
\* a document whose call returned a JSON object is not failed, whatever the
\* keys of the object, and is not routed to failed/
C25_FailedOnlyWhenExtractionFailed ==
    /\ \A i \in 1..Len(validated_results) :
          validated_results[i].status = "failed" => ExtractionFailed(i)
    /\ \A i \in 1..Len(validated_data) :
          validated_data[i].file_key \in Elems(moved.failed) => ExtractionFailed(i)

\* the keys process_batch_with_llm sets on a result after the answer was parsed
PipelineKeys == {"file_key", "provider", "model", "tokens_used", "cost", "latency_ms"}

\* the object under key, filed back under incoming/
Source(key) == [key EXCEPT !.prefix = "incoming/"]

\* C26: every result of the extraction stage, successful or failed, has the
\* file key of the document it was produced from; on the result of an
\* answered call the file key, provider, model, token count, cost and latency
\* are those of the pipeline even when the answer has keys of these names;
\* validation keeps the file key, and the move stage copies and deletes
\* objects of the documents of the run only
C26_ResultsCarryPipelineValues ==
    /\ mapped.process_batch_with_llm[1] = "success" =>
          /\ Len(extracted_batches[1]) = Len(batches[1])
          /\ \A i \in 1..Len(batches[1]) :
                /\ extracted_batches[1][i].file_key = batches[1][i]
                /\ Answered(i) =>
                      \A k \in PipelineKeys :
                          extracted_batches[1][i][k] =
                              ResultFields(batch_texts[1][i], selected[1])[k]
    /\ \A i \in 1..Len(validated_results) : validated_results[i].file_key = batches[1][i]
    /\ \A route \in DOMAIN moved : Elems(moved[route]) \subseteq Elems(pending_keys)
    /\ \A key \in storage \cup moveFaults : Source(key) \in Elems(pending_keys)

\* the answer of a document had keys named like the pipeline's, and the
\* document was moved from incoming/ to processed/ under its own name
C26_Witness ==
    \E i \in 1..Len(validated_data) :
        /\ \E c \in 1..Len(llm_calls) :
              /\ llm_calls[c].file_key = batches[1][i]
              /\ llm_calls[c].answered = "content"
              /\ PipelineKeys \subseteq llm_calls[c].keys
        /\ validated_data[i].file_key = batches[1][i]
        /\ validated_data[i].provider = selected[1].provider_name
        /\ batches[1][i] \notin storage
        /\ Replace(batches[1][i], "processed/") \in storage

----------------------------------------------------------------------------
(* Properties of the counters *)

\* the records move_processed_files does not skip
WithFileKey == {i \in 1..Len(validated_data) : "file_key" \in DOMAIN validated_data[i]}

MovedTotal == Len(moved.success) + Len(moved.review) + Len(moved.failed)

\* C27: the counters move_processed_files returns add up to the number of
\* records that have a file key, whether or not the copy and the delete of
\* each file were done; every outcome store_to_database returns has
\* success_count + failed_count = total_processed
C27_CountersAddUp ==
    /\ MoveReturned => MovedTotal = Cardinality(WithFileKey)
    /\ \A k \in 1..Len(db_result) :
          db_result[k].success_count + db_result[k].failed_count
              = db_result[k].total_processed

\* both stages returned: a copy or a delete had failed and the file is still
\* under incoming/, and the store had counted a record as failed
C27_Witness ==
    /\ MoveReturned
    /\ \E key \in moveFaults : key \in storage
    /\ MovedTotal = Len(validated_data)
    /\ Len(validated_data) = MaxDocs
    /\ \E k \in 1..Len(db_result) :
          /\ db_result[k].failed_count > 0
          /\ db_result[k].success_count > 0

====
